---- MODULE Spec2Model ----
(***************************************************************************)
(* A model of entrystore: the partitioned CSV store (CSVStore) over a      *)
(* storage adapter, and the relational store (SQLiteStore) with its write  *)
(* queue.  Entries have two fields, the index field and a String field     *)
(* "value" (the Entry class of the test suite).                            *)
(***************************************************************************)
EXTENDS Integers, Sequences, FiniteSets, TLC

(***************************************************************************)
(* Bounds of the model.                                                    *)
(***************************************************************************)
MaxKey == 1
MaxBatch == 2
MaxCalls == 2

(***************************************************************************)
(* Program constants.                                                      *)
(***************************************************************************)
MILLISECONDS == 1000
MAX_INPUT == 999

\* a queue with a worker for every call
QueueConcurrencyUnbounded == MaxCalls

QueueConcurrency == 1
PartitionSize == 2

Kinds == {"Number", "String", "Date", "URL"}
Backends == {"csv", "sqlite"}
Vals == {"x", "y"}

(***************************************************************************)
(* Text.  A string that the code builds or parses is a sequence of         *)
(* one-character strings.                                                  *)
(***************************************************************************)
DigitChar == <<"0", "1", "2", "3", "4", "5", "6", "7", "8", "9">>

DigitVal(c) == (CHOOSE d \in 1..10 : DigitChar[d] = c) - 1

RECURSIVE NumberToString(_)
\* Number.prototype.toString of an integer
NumberToString(n) ==
  IF n < 0 THEN <<"-">> \o NumberToString(0 - n)
  ELSE IF n < 10 THEN <<DigitChar[n + 1]>>
  ELSE NumberToString(n \div 10) \o <<DigitChar[(n % 10) + 1]>>

RECURSIVE ParseDigits(_, _)
ParseDigits(s, acc) ==
  IF s = <<>> THEN acc ELSE ParseDigits(Tail(s), acc * 10 + DigitVal(Head(s)))

\* parseFloat of the literal of an integer
ParseInteger(s) ==
  IF s # <<>> /\ Head(s) = "-" THEN 0 - ParseDigits(Tail(s), 0) ELSE ParseDigits(s, 0)

\* position of the decimal point of a decimal literal, 0 when it has none
DotPos(s) ==
  IF \E i \in 1..Len(s) : s[i] = "."
  THEN CHOOSE i \in 1..Len(s) : s[i] = "." /\ \A j \in 1..(i - 1) : s[j] # "."
  ELSE 0

\* the value of an unsigned decimal literal in thousandths (at most 3
\* fraction digits)
UnsignedThousandths(s) ==
  LET d == DotPos(s)
      int == IF d = 0 THEN s ELSE SubSeq(s, 1, d - 1)
      frac == IF d = 0 THEN <<>> ELSE SubSeq(s, d + 1, Len(s))
      pad == frac \o SubSeq(<<"0", "0", "0">>, 1, 3 - Len(frac))
  IN  ParseDigits(int, 0) * MILLISECONDS + ParseDigits(pad, 0)

\* the value of a decimal literal in thousandths
Thousandths(s) ==
  IF s # <<>> /\ Head(s) = "-" THEN 0 - UnsignedThousandths(Tail(s))
  ELSE UnsignedThousandths(s)

\* the decimal literal of x / 1000, as Number.prototype.toString prints the
\* double nearest to it (the shortest literal that reads back as that double)
UnsignedDivToString(x) ==
  LET int == x \div MILLISECONDS
      frac == x % MILLISECONDS
      d3 == <<DigitChar[(frac \div 100) + 1], DigitChar[((frac \div 10) % 10) + 1],
              DigitChar[(frac % 10) + 1]>>
      keep == IF frac % 10 # 0 THEN 3 ELSE IF frac % 100 # 0 THEN 2 ELSE 1
  IN  IF frac = 0 THEN NumberToString(int)
      ELSE NumberToString(int) \o <<".">> \o SubSeq(d3, 1, keep)

\* division and printing are symmetric in the sign
DivToString(x) ==
  IF x < 0 THEN <<"-">> \o UnsignedDivToString(0 - x) ELSE UnsignedDivToString(x)

\* the comparison of two strings by the relational operators of the language
RECURSIVE StrGt(_, _)
StrGt(a, b) ==
  IF a = <<>> THEN FALSE
  ELSE IF b = <<>> THEN TRUE
  ELSE IF Head(a) = Head(b) THEN StrGt(Tail(a), Tail(b))
  ELSE \E i, j \in 1..10 : DigitChar[i] = Head(a) /\ DigitChar[j] = Head(b) /\ i > j

(***************************************************************************)
(* IEEE-754 double arithmetic of parseFloat(value) * MILLISECONDS, for a   *)
(* literal worth x thousandths.  parseFloat yields d = m * 2^-k, m the     *)
(* integer nearest to x * 2^k / 1000 with 2^52 <= m < 2^53; the exact      *)
(* product is x + delta * 2^-k with delta = 1000 * m - x * 2^k, and the    *)
(* product is rounded to the double nearest to it.                         *)
(***************************************************************************)
RECURSIVE Pow2(_)
Pow2(n) == IF n = 0 THEN 1 ELSE 2 * Pow2(n - 1)

RECURSIVE Pow2Mod(_, _)
Pow2Mod(n, m) == IF n = 0 THEN 1 % m ELSE (2 * Pow2Mod(n - 1, m)) % m

\* floor(log2(x)) for x >= 1
FloorLog2(x) == CHOOSE e \in 0..30 : Pow2(e) <= x /\ (e = 30 \/ x < Pow2(e + 1))

\* floor(log2(x / 1000)) for x >= 1
FloorLog2Div(x) ==
  IF x >= MILLISECONDS
  THEN CHOOSE f \in 0..20 : MILLISECONDS * Pow2(f) <= x /\ x < MILLISECONDS * Pow2(f + 1)
  ELSE 0 - (CHOOSE f \in 1..10 : x * Pow2(f) >= MILLISECONDS /\ x * Pow2(f - 1) < MILLISECONDS)

\* the integer part (Date's TimeClip) of the double parseFloat(value) * 1000
UnsignedMulMilliseconds(x) ==
  IF x = 0 THEN 0
  ELSE LET e == FloorLog2(x)
           f == FloorLog2Div(x)
           k == 52 - f
           t == ((x % MILLISECONDS) * Pow2Mod(k, MILLISECONDS)) % MILLISECONDS
           delta == IF t < 500 THEN 0 - t ELSE MILLISECONDS - t
           half == Pow2(e - f - 1)
           halfBelow == IF x = Pow2(e) THEN half \div 2 ELSE half
       IN  IF 0 - delta > halfBelow THEN x - 1 ELSE x

\* parsing, the product and its rounding are symmetric in the sign, and
\* TimeClip drops the fraction towards zero
MulMilliseconds(x) ==
  IF x < 0 THEN 0 - UnsignedMulMilliseconds(0 - x) ELSE UnsignedMulMilliseconds(x)

(***************************************************************************)
(* Values.  A key is a record kind/v: a number, a string, a Date object    *)
(* (v its time value in ms) or a URL object (v its href).                  *)
(***************************************************************************)
\* keyA > keyB
KeyGt(a, b) ==
  IF a.kind \in {"Number", "Date"} THEN a.v > b.v ELSE StrGt(a.v, b.v)

\* SameValueZero of two keys that are held by references refA and refB: a
\* number or a string is compared by value, an object by identity
SameValueZero(a, refA, b, refB) ==
  IF a.kind \in {"Number", "String"} THEN a.v = b.v ELSE refA = refB

(***************************************************************************)
(* entry/csv/schema.ts: the CSV form of a value.                           *)
(***************************************************************************)
\* the text JSON.stringify gives null
NullText == <<"n", "u", "l", "l">>

\* what parseFloat and parseInt give a text without a leading numeral, and
\* the time value of the Date made from it
NaN == "NaN"

\* the text starts a decimal literal that parseFloat reads to its end
IsNumeral(text) ==
  /\ text # <<>>
  /\ \A i \in 1..Len(text) :
       text[i] \in {DigitChar[j] : j \in 1..10} \cup {".", "-"}

Quote == "\""

\* JSON.stringify of an object with the one field string
EmbeddedText(object) ==
  <<"{", Quote, "s", "t", "r", "i", "n", "g", Quote, ":", Quote>>
    \o object.string \o <<Quote, "}">>

\* JSON.parse of the text of such an object, or of null
EmbeddedParse(text) ==
  IF text = NullText THEN [kind |-> "Null", v |-> "null"]
  ELSE [kind |-> "Embedded", v |-> [string |-> SubSeq(text, 12, Len(text) - 2)]]

RECURSIVE Join(_, _)
\* the texts with sep between them
Join(texts, sep) ==
  IF texts = <<>> THEN <<>>
  ELSE IF Len(texts) = 1 THEN texts[1]
  ELSE texts[1] \o <<sep>> \o Join(Tail(texts), sep)

RECURSIVE Split(_, _)
\* the parts of a text between the occurrences of sep
Split(text, sep) ==
  IF \E i \in 1..Len(text) : text[i] = sep
  THEN LET i == CHOOSE j \in 1..Len(text) :
                  text[j] = sep /\ \A l \in 1..(j - 1) : text[l] # sep
       IN  <<SubSeq(text, 1, i - 1)>> \o Split(SubSeq(text, i + 1, Len(text)), sep)
  ELSE <<text>>

\* JSON.stringify of an array of strings (quoted) or of numbers
JSONStringify(elements, quoted) ==
  <<"[">>
    \o Join([i \in 1..Len(elements) |->
               IF quoted THEN <<Quote>> \o elements[i] \o <<Quote>> ELSE elements[i]], ",")
    \o <<"]">>

\* JSON.parse of the text of an array of strings without a comma or a quote
\* in them, or of numbers: the texts of the elements, quotes removed
JSONParse(text) ==
  LET inner == SubSeq(text, 2, Len(text) - 1)
      parts == IF inner = <<>> THEN <<>> ELSE Split(inner, ",")
  IN  [i \in 1..Len(parts) |->
         IF Head(parts[i]) = Quote THEN SubSeq(parts[i], 2, Len(parts[i]) - 1)
         ELSE parts[i]]

hydrateGeneric(value) ==
  IF value.kind = "Boolean" THEN (IF value.v THEN <<"1">> ELSE <<"0">>)
  ELSE IF value.kind = "Number" THEN NumberToString(value.v)
  ELSE IF value.kind = "String" THEN value.v
  ELSE IF value.kind = "Date" THEN DivToString(value.v)
  ELSE IF value.kind = "URL" THEN value.v
  ELSE IF value.kind = "Null" THEN NullText
  ELSE EmbeddedText(value.v)

\* the hrefs of the URLs of the model are numerals; any other text makes
\* new URL throw
dehydrateGeneric(type, value) ==
  IF type = "Boolean"
  THEN [kind |-> "Boolean", v |-> IF IsNumeral(value) THEN ParseInteger(value) # 0 ELSE FALSE]
  ELSE IF type = "Number"
  THEN [kind |-> "Number", v |-> IF IsNumeral(value) THEN ParseInteger(value) ELSE NaN]
  ELSE IF type = "String" THEN [kind |-> "String", v |-> value]
  ELSE IF type = "Date"
  THEN [kind |-> "Date",
        v |-> IF IsNumeral(value) THEN MulMilliseconds(Thousandths(value)) ELSE NaN]
  ELSE IF type = "Embedded" THEN EmbeddedParse(value)
  ELSE IF IsNumeral(value) THEN [kind |-> "URL", v |-> value]
  ELSE [kind |-> "TypeError", v |-> value]

\* hydrate(value): a value is a record isArray/elems, elems the one scalar
\* or the elements of the array
hydrate(value) ==
  IF value.isArray
  THEN JSONStringify([i \in 1..Len(value.elems) |-> hydrateGeneric(value.elems[i])], TRUE)
  ELSE hydrateGeneric(value.elems[1])

\* dehydrate(meta, value); JSON.parse(value).map throws when the text is null
dehydrate(meta, value) ==
  IF meta.isList
  THEN IF value = NullText
       THEN [isArray |-> FALSE, elems |-> <<[kind |-> "TypeError", v |-> value]>>]
       ELSE [isArray |-> TRUE,
             elems |-> [i \in 1..Len(JSONParse(value)) |->
                          dehydrateGeneric(meta.type, JSONParse(value)[i])]]
  ELSE [isArray |-> FALSE, elems |-> <<dehydrateGeneric(meta.type, value)>>]

\* mapValues(entry, hydrate): the row of an entry
hydrateEntry(entry) == [key |-> hydrateGeneric(entry.key), val |-> entry.val]

\* dehydrateNative(map, native): the entry of a row; ref names the new object
dehydrateNative(type, native, ref) ==
  [key |-> dehydrateGeneric(type, native.key), val |-> native.val, ref |-> ref]

(***************************************************************************)
(* The partitioners: FixedSizePartitioner over Number keys,                *)
(* YearMonthPartitioner over Date keys (instants of the first two months   *)
(* of 1970), SinglePartitioner over String and URL keys.                   *)
(***************************************************************************)
MsPerDay == 86400000

\* a % b of the language: the remainder has the sign of the dividend
Remainder(a, b) == IF a < 0 THEN 0 - ((0 - a) % b) ELSE a % b

FixedSizeGetPartition(index) == NumberToString(index - Remainder(index, PartitionSize))

\* getUTCFullYear and getUTCMonth of an instant of December 1969, January
\* 1970 or February 1970
YearMonthGetPartition(time) ==
  LET day == time \div MsPerDay
      year == IF day < 0 THEN 1969 ELSE 1970
      month == IF day < 0 THEN 12 ELSE IF day < 31 THEN 1 ELSE 2
  IN  NumberToString(year) \o <<"-">>
        \o (IF month < 10 THEN <<"0">> ELSE <<>>) \o NumberToString(month)

SingleGetPartition == <<"single">>

getPartition(key) ==
  IF key.kind = "Number" THEN FixedSizeGetPartition(key.v)
  ELSE IF key.kind = "Date" THEN YearMonthGetPartition(key.v)
  ELSE SingleGetPartition

(***************************************************************************)
(* Sorting and de-duplication.                                             *)
(***************************************************************************)
\* byKey(index)(a, b): 1 when keyA > keyB, else -1 (never 0)
byKey(a, b) == IF KeyGt(a.key, b.key) THEN 1 ELSE 0 - 1

RemoveAt(s, i) == SubSeq(s, 1, i - 1) \o SubSeq(s, i + 1, Len(s))

RECURSIVE SortResults(_)
\* Array.prototype.sort with byKey: byKey answers -1 for both orders of two
\* equal keys, so it is not a consistent comparator and the order of equal
\* keys is implementation-defined: every ascending arrangement is a result
SortResults(s) ==
  IF s = <<>> THEN {<<>>}
  ELSE UNION {{<<s[i]>> \o r : r \in SortResults(RemoveAt(s, i))} :
              i \in {j \in 1..Len(s) : \A l \in 1..Len(s) : byKey(s[j], s[l]) < 0 \/ j = l}}

RECURSIVE uniqBy(_)
\* lodash uniqBy(array, entry => entry[index]): the first occurrence of each
\* key under SameValueZero is kept
uniqBy(s) ==
  IF s = <<>> THEN <<>>
  ELSE LET n == Len(s)
           init == uniqBy(SubSeq(s, 1, n - 1))
       IN  IF \E i \in 1..Len(init) :
                SameValueZero(init[i].key, init[i].ref, s[n].key, s[n].ref)
           THEN init
           ELSE Append(init, s[n])

\* every entry of the call, whatever its partition
SelectPartitionAll(s, p) == s

SelectPartition(s, p) == SelectSeq(s, LAMBDA e : getPartition(e.key) = p)

(***************************************************************************)
(* CSV text: a file is a sequence of lines, a line is a row of two cells.  *)
(***************************************************************************)
Header == [key |-> <<"index">>, val |-> "value"]

\* a header on every content, the appended ones included
csvAlwaysHeader(entries, header) ==
  <<Header>> \o [i \in 1..Len(entries) |-> hydrateEntry(entries[i])]

\* csv(entries.map(hydrate), { header })
csv(entries, header) ==
  (IF header THEN <<Header>> ELSE <<>>) \o [i \in 1..Len(entries) |-> hydrateEntry(entries[i])]

\* csv-parse with columns: true: the first line names the columns
dehydrateCSV(lines) == IF lines = <<>> THEN <<>> ELSE Tail(lines)

\* StorageAdapter.head and tail, by their contract
head(lines, n) == SubSeq(lines, 1, IF n < Len(lines) THEN n ELSE Len(lines))

tail(lines, n) == SubSeq(lines, IF n < Len(lines) THEN Len(lines) - n + 1 ELSE 1, Len(lines))

(***************************************************************************)
(* schema.ts: the schema of a store.  A schema is a record index/map; map  *)
(* gives every field its type identifier (a string), isList and            *)
(* isNullable.  An encoded schema gives every field a token.               *)
(***************************************************************************)
\* the fields of an entry, in the order the prototype declares them
FieldNames == <<"index", "value", "extra", "more">>

\* the type identifiers (GenericTypeIdentifier)
TypeIdentifier(name) ==
  CASE name = "Boolean" -> <<"B", "o", "o", "l", "e", "a", "n">>
    [] name = "Number" -> <<"N", "u", "m", "b", "e", "r">>
    [] name = "String" -> <<"S", "t", "r", "i", "n", "g">>
    [] name = "Date" -> <<"D", "a", "t", "e">>
    [] name = "URL" -> <<"U", "R", "L">>
    [] name = "Embedded" -> <<"E", "m", "b", "e", "d", "d", "e", "d">>
    [] name = "Nullable" -> <<"N", "u", "l", "l", "a", "b", "l", "e">>

GenericTypeNames == {"Boolean", "Number", "String", "Date", "URL", "Embedded"}

\* the index of a schema that has none
Undefined == "undefined"

\* \w of a regular expression
IsWordChar(c) ==
  \/ \E d \in 1..10 : DigitChar[d] = c
  \/ c = "_"
  \/ \E n \in GenericTypeNames \cup {"Nullable"} :
       \E i \in 1..Len(TypeIdentifier(n)) : TypeIdentifier(n)[i] = c

\* the token of a field in encodeSchema
encodeField(meta, isIndex) ==
  (IF isIndex THEN <<"*">> ELSE <<>>)
    \o (IF meta.isList THEN <<"[">> \o meta.type \o <<"]">> ELSE meta.type)
    \o (IF meta.isNullable THEN <<"?">> ELSE <<>>)

encodeSchema(schema) ==
  [f \in DOMAIN schema.map |-> encodeField(schema.map[f], f = schema.index)]

\* /^\*/.exec(value)
MatchesIndex(value) == value # <<>> /\ value[1] = "*"

\* /\[\w+\]/.exec(value)
MatchesList(value) ==
  \E i, j \in 1..Len(value) :
    /\ i + 1 < j
    /\ value[i] = "[" /\ value[j] = "]"
    /\ \A k \in (i + 1)..(j - 1) : IsWordChar(value[k])

\* /\?$/.exec(value)
MatchesNullable(value) == value # <<>> /\ value[Len(value)] = "?"

\* value.replace(/^\*?\[?(\w+)\]?$/, '$1'): a token that ends with ? does
\* not match and is left as it is
ReplaceTypeNoQuestionMark(value) ==
  LET n == Len(value)
      a == IF n >= 1 /\ value[1] = "*" THEN 1 ELSE 0
      b == IF n >= a + 1 /\ value[a + 1] = "[" THEN 1 ELSE 0
      r == IF n >= 1 /\ value[n] = "]" THEN 1 ELSE 0
      from == a + b + 1
      to == n - r
  IN  IF from <= to /\ \A k \in from..to : IsWordChar(value[k])
      THEN SubSeq(value, from, to) ELSE value

\* value.replace(/^\*?\[?(\w+)\]?\??$/, '$1'): none of * [ ] ? is a word
\* character, so each optional part matches exactly when it is there
ReplaceType(value) ==
  LET n == Len(value)
      a == IF n >= 1 /\ value[1] = "*" THEN 1 ELSE 0
      b == IF n >= a + 1 /\ value[a + 1] = "[" THEN 1 ELSE 0
      q == IF n >= 1 /\ value[n] = "?" THEN 1 ELSE 0
      r == IF n - q >= 1 /\ value[n - q] = "]" THEN 1 ELSE 0
      from == a + b + 1
      to == n - q - r
  IN  IF from <= to /\ \A k \in from..to : IsWordChar(value[k])
      THEN SubSeq(value, from, to) ELSE value

\* the fields of an object in the order of FieldNames
KeysInOrder(fields) == SelectSeq(FieldNames, LAMBDA f : f \in fields)

decodeSchema(encoded) ==
  LET marked == SelectSeq(KeysInOrder(DOMAIN encoded), LAMBDA f : MatchesIndex(encoded[f]))
  IN  [index |-> IF marked = <<>> THEN Undefined ELSE marked[1],
       map |-> [f \in DOMAIN encoded |->
                  [isList |-> MatchesList(encoded[f]),
                   isNullable |-> MatchesNullable(encoded[f]),
                   type |-> ReplaceType(encoded[f])]]]

(***************************************************************************)
(* State.                                                                  *)
(*   backend, kind  the store under study and the kind of its index field  *)
(*   files          the storage adapter: path of a partition -> its lines  *)
(*   calls          the CSV put calls in flight: id -> entries, the file   *)
(*                  system at the time of the call, and one writer (cargo) *)
(*                  per partition of the call                              *)
(*   ncalls         the number of put calls issued so far                  *)
(*   putKeys        the keys of the entries passed to put so far           *)
(*   lastPut        the put call that returned in the last step, if any    *)
(*   records        the rows of the records table of the database file     *)
(*   sqlQueue       the write queue of each SQLiteStore instance           *)
(*   tasks          the put calls made on the relational store: id -> the  *)
(*                  instance, the entries and the position of the task     *)
(*   lastEmit       the append or write a writer made in the last step, if *)
(*                  any                                                    *)
(*   template       the schema of the prototype each instance was given,   *)
(*                  if any                                                 *)
(*   cached         this.schema of each instance                           *)
(*   persisted      the encoded schema the backing holds (schema.json, the *)
(*                  schema table), if any                                  *)
(*   lastOp         the operation that settled in the last step, with its  *)
(*                  outcome, if any                                        *)
(*   pure           the argument and the results of a function of          *)
(*                  schema.ts that is applied on its own                   *)
(*   keyRange       the index values the calls of the run draw from        *)
(*   db             the database file at the level of its statements: the  *)
(*                  tables it holds and the handles that are open on it    *)
(***************************************************************************)
VARIABLES backend, kind, files, calls, ncalls, putKeys, lastPut, lastEmit, records, sqlQueue,
          tasks, template, cached, persisted, lastOp, pure, keyRange, db

\* the schema of the instances and of the backing, the last operation that
\* settled, and the argument and result of a function applied on its own
auxVars == <<template, cached, persisted, lastOp, pure, keyRange, db>>

\* a database file without a table and without an open handle; faulty: a
\* call on the database may fail for a reason that is not in the database
NoDatabase == [schema |-> "absent", records |-> FALSE, handles |-> {}, faulty |-> TRUE]

sqlVars == <<records, sqlQueue, tasks>>

csvVars == <<files, calls, lastEmit>>

\* the index values the calls of a run draw their keys from.  narrow: Number
\* keys fill the first partition of the FixedSizePartitioner and open the
\* second, Date keys are the instants from 1.000 s on, one ms apart.  wide:
\* Number keys of a negative partition, of the partition of zero (one of
\* them negative) and of the next partition, Date keys of the last instant
\* of 1969 and of the instants after 1.000 s
KeyPayloads(k) ==
  IF k = "Number"
  THEN IF keyRange = "wide" THEN ((0 - PartitionSize)..0) \cup {PartitionSize}
       ELSE 0..PartitionSize
  ELSE IF k = "Date"
  THEN IF keyRange = "wide" THEN {0 - 1} \cup {MILLISECONDS + i : i \in 1..MaxKey}
       ELSE {MILLISECONDS + i : i \in 0..MaxKey}
  ELSE {NumberToString(i) : i \in 0..MaxKey}

Keys(k) == {[kind |-> k, v |-> p] : p \in KeyPayloads(k)}

ArgRef(i) == [src |-> "arg", n |-> i]
RowRef(i) == [src |-> "row", n |-> i]

\* the argument lists of a put call: entries are distinct objects
Batches ==
  UNION {[1..n -> Keys(kind) \X Vals] : n \in 0..MaxBatch}

MakeEntries(b) == [i \in 1..Len(b) |-> [key |-> b[i][1], val |-> b[i][2], ref |-> ArgRef(i)]]

\* a cargo whose worker is given the first entry that was pushed and no other
NewWriterOfFirst(batch) ==
  [pc |-> "exists", batch |-> SubSeq(batch, 1, 1), partitionExists |-> FALSE, first |-> <<>>,
   last |-> <<>>, mode |-> "write", content |-> <<>>, ops |-> {}, fault |-> "none",
   emits |-> 0]

\* cargo(worker) and the pushes of put: the entries are pushed before the
\* worker runs, and a cargo without a payload gives its worker every entry
\* that waits; emits counts the calls of append and write
NewWriter(batch) ==
  [pc |-> "exists", batch |-> batch, partitionExists |-> FALSE, first |-> <<>>,
   last |-> <<>>, mode |-> "write", content |-> <<>>, ops |-> {}, fault |-> "none",
   emits |-> 0]

\* getFirst(partition): head(2), parse, dehydrate the first row
getFirst(lines) ==
  LET rows == dehydrateCSV(head(lines, 2))
  IN  <<dehydrateNative(kind, rows[1], RowRef(1))>>

\* getLast(partition): head(1) and tail(1), parse, dehydrate the row
getLast(lines) ==
  LET rows == dehydrateCSV(head(lines, 1) \o tail(lines, 1))
  IN  <<dehydrateNative(kind, rows[1], RowRef(Len(lines) - 1))>>

\* getCSVEntries(partition) once the file is known to exist, dehydrated
existingEntries(lines) ==
  LET rows == dehydrateCSV(lines)
  IN  [i \in 1..Len(rows) |-> dehydrateNative(kind, rows[i], RowRef(i))]

\* mixPartitionWith: the results of uniqBy([...entries, ...existing]).sort
mixPartitionWith(entries, existing) == SortResults(uniqBy(entries \o existing))

\* append whenever the partition holds a row, whatever the batch
WriteModeNoComparison(first, last, sortedEntries) ==
  IF first # <<>> /\ last # <<>> THEN "append" ELSE "write"

\* the mode of createWriter
WriteMode(first, last, sortedEntries) ==
  IF first # <<>> /\ last # <<>> /\ KeyGt(sortedEntries[1].key, last[1].key)
  THEN "append" ELSE "write"

SetWriter(c, p, w) == calls' = [calls EXCEPT ![c].writers[p] = w]

\* put(...entries) on the CSV store up to its first suspension: the entries
\* are sorted, bucketed by partition and pushed to one new cargo per partition
CsvPut(c, b) ==
  /\ backend = "csv"
  /\ ncalls < MaxCalls
  /\ c = ncalls + 1
  /\ \E sorted \in SortResults(MakeEntries(b)) :
       LET parts == {getPartition(sorted[i].key) : i \in 1..Len(sorted)}
       IN  calls' = [x \in DOMAIN calls \cup {c} |->
                       IF x = c
                       THEN [entries |-> MakeEntries(b), pre |-> files,
                             writers |-> [p \in parts |-> NewWriter(SelectPartition(sorted, p))]]
                       ELSE calls[x]]
  /\ ncalls' = ncalls + 1
  /\ putKeys' = putKeys \cup {b[i][1] : i \in 1..Len(b)}
  /\ lastPut' = <<>>
  /\ lastEmit' = <<>>
  /\ UNCHANGED <<auxVars, backend, kind, files, records, sqlQueue, tasks>>

\* the writer after the probes: sort the batch, choose the mode, and for an
\* append prepare the content
Decide(c, p, w) ==
  \E sorted \in SortResults(w.batch) :
    LET mode == WriteMode(w.first, w.last, sorted)
    IN  SetWriter(c, p, [w EXCEPT !.batch = sorted, !.mode = mode,
                           !.pc = IF mode = "append" THEN "emit" ELSE "mixExists",
                           !.content = IF mode = "append" THEN csv(sorted, FALSE) ELSE <<>>])

\* await this.store.exists(partition.csv)
WriterExists(c, p) ==
  /\ c \in DOMAIN calls /\ p \in DOMAIN calls[c].writers
  /\ calls[c].writers[p].pc = "exists"
  /\ LET w == [calls[c].writers[p] EXCEPT !.ops = @ \cup {"exists"}]
     IN  IF p \in DOMAIN files
         THEN SetWriter(c, p, [w EXCEPT !.partitionExists = TRUE, !.pc = "first"])
         ELSE Decide(c, p, w)
  /\ lastPut' = <<>>
  /\ lastEmit' = <<>>
  /\ UNCHANGED <<auxVars, backend, kind, files, ncalls, putKeys, records, sqlQueue, tasks>>

\* await this.getFirst(partition)
WriterFirst(c, p) ==
  /\ c \in DOMAIN calls /\ p \in DOMAIN calls[c].writers
  /\ calls[c].writers[p].pc = "first"
  /\ SetWriter(c, p, [calls[c].writers[p] EXCEPT !.first = getFirst(files[p]),
                        !.pc = "last", !.ops = @ \cup {"head"}])
  /\ lastPut' = <<>>
  /\ lastEmit' = <<>>
  /\ UNCHANGED <<auxVars, backend, kind, files, ncalls, putKeys, records, sqlQueue, tasks>>

\* await this.getLast(partition), then the sort and the choice of the mode
WriterLast(c, p) ==
  /\ c \in DOMAIN calls /\ p \in DOMAIN calls[c].writers
  /\ calls[c].writers[p].pc = "last"
  /\ Decide(c, p, [calls[c].writers[p] EXCEPT !.last = getLast(files[p]),
                     !.ops = @ \cup {"head", "tail"}])
  /\ lastPut' = <<>>
  /\ lastEmit' = <<>>
  /\ UNCHANGED <<auxVars, backend, kind, files, ncalls, putKeys, records, sqlQueue, tasks>>

\* mixPartitionWith, getCSVEntries: await this.store.exists(partition.csv)
WriterMixExists(c, p) ==
  /\ c \in DOMAIN calls /\ p \in DOMAIN calls[c].writers
  /\ calls[c].writers[p].pc = "mixExists"
  /\ LET w == [calls[c].writers[p] EXCEPT !.ops = @ \cup {"exists"}]
     IN  IF p \in DOMAIN files
         THEN SetWriter(c, p, [w EXCEPT !.pc = "mixRead"])
         ELSE \E mixed \in mixPartitionWith(w.batch, <<>>) :
                SetWriter(c, p, [w EXCEPT !.pc = "emit", !.content = csv(mixed, TRUE)])
  /\ lastPut' = <<>>
  /\ lastEmit' = <<>>
  /\ UNCHANGED <<auxVars, backend, kind, files, ncalls, putKeys, records, sqlQueue, tasks>>

\* mixPartitionWith, getCSVEntries: await this.store.read(partition.csv),
\* then the merge and the content
WriterMixRead(c, p) ==
  /\ c \in DOMAIN calls /\ p \in DOMAIN calls[c].writers
  /\ calls[c].writers[p].pc = "mixRead"
  /\ LET w == [calls[c].writers[p] EXCEPT !.ops = @ \cup {"read"}]
     IN  \E mixed \in mixPartitionWith(w.batch, existingEntries(files[p])) :
           SetWriter(c, p, [w EXCEPT !.pc = "emit", !.content = csv(mixed, TRUE)])
  /\ lastPut' = <<>>
  /\ lastEmit' = <<>>
  /\ UNCHANGED <<auxVars, backend, kind, files, ncalls, putKeys, records, sqlQueue, tasks>>

\* StorageAdapter.append and write
StorageAppend(fs, p, content) ==
  [x \in DOMAIN fs \cup {p} |->
     IF x = p THEN (IF p \in DOMAIN fs THEN fs[p] ELSE <<>>) \o content ELSE fs[x]]

\* a write that leaves out the first line of the content
StorageWriteBody(fs, p, content) ==
  [x \in DOMAIN fs \cup {p} |-> IF x = p THEN Tail(content) ELSE fs[x]]

StorageWrite(fs, p, content) ==
  [x \in DOMAIN fs \cup {p} |-> IF x = p THEN content ELSE fs[x]]

\* await this.store[mode](partition.csv, content)
WriterEmit(c, p) ==
  /\ c \in DOMAIN calls /\ p \in DOMAIN calls[c].writers
  /\ calls[c].writers[p].pc = "emit"
  /\ LET w == [calls[c].writers[p] EXCEPT !.ops = @ \cup {calls[c].writers[p].mode},
                                         !.pc = "done", !.emits = @ + 1]
     IN  /\ files' = IF w.mode = "append" THEN StorageAppend(files, p, w.content)
                     ELSE StorageWrite(files, p, w.content)
         /\ SetWriter(c, p, w)
         /\ lastEmit' = <<[call |-> c, partition |-> p, mode |-> w.mode, batch |-> w.batch,
                           existed |-> p \in DOMAIN files,
                           before |-> IF p \in DOMAIN files THEN files[p] ELSE <<>>,
                           ops |-> w.ops]>>
  /\ lastPut' = <<>>
  /\ UNCHANGED <<auxVars, backend, kind, ncalls, putKeys, records, sqlQueue, tasks>>

\* the storage-adapter calls the writer awaits at its position
AdapterCalls(w) ==
  IF w.pc \in {"exists", "mixExists"} THEN {"exists"}
  ELSE IF w.pc = "first" THEN {"head"}
  ELSE IF w.pc = "last" THEN {"head", "tail"}
  ELSE IF w.pc = "mixRead" THEN {"read"}
  ELSE IF w.pc = "emit" THEN {w.mode}
  ELSE {}

\* a rejection in the worker of a cargo ends the worker of every cargo of
\* the call
RejectedAll(writers, p, op) ==
  [q \in DOMAIN writers |->
     IF q = p THEN [writers[q] EXCEPT !.pc = "failed", !.fault = op]
     ELSE IF writers[q].pc = "done" THEN writers[q]
     ELSE [writers[q] EXCEPT !.pc = "failed"]]

\* the worker of the cargo of partition p rejects with the fault of the
\* adapter call op: the cargo is idle again, the other cargos are as they were
Rejected(writers, p, op) ==
  [writers EXCEPT ![p] = [@ EXCEPT !.pc = "failed", !.fault = op]]

\* the adapter call awaited by the writer of partition p fails
WriterFault(c, p) ==
  /\ c \in DOMAIN calls /\ p \in DOMAIN calls[c].writers
  /\ \E op \in AdapterCalls(calls[c].writers[p]) :
       calls' = [calls EXCEPT ![c].writers = Rejected(@, p, op)]
  /\ lastPut' = <<>>
  /\ lastEmit' = <<>>
  /\ UNCHANGED <<auxVars, backend, kind, files, ncalls, putKeys, records, sqlQueue, tasks>>

\* writer.drain(): the promise is resolved by the drain event of the cargo,
\* which fires without an argument when the cargo is idle, after a worker
\* that returned and after a worker that rejected alike; put(entry) pushes
\* without a callback and registers no error handler
drain(w) == IF w.pc \in {"done", "failed"} THEN "resolved" ELSE "pending"

\* await Promise.all(writers.map(writer => writer.drain())): put returns
CsvPutReturn(c) ==
  /\ c \in DOMAIN calls
  /\ \A p \in DOMAIN calls[c].writers : drain(calls[c].writers[p]) = "resolved"
  /\ calls' = [x \in DOMAIN calls \ {c} |-> calls[x]]
  /\ lastPut' = <<[call |-> c, entries |-> calls[c].entries, pre |-> calls[c].pre,
                   error |-> "none",
                   pcs |-> [p \in DOMAIN calls[c].writers |-> calls[c].writers[p].pc],
                   faults |-> [p \in DOMAIN calls[c].writers |-> calls[c].writers[p].fault],
                   emits |-> [p \in DOMAIN calls[c].writers |-> calls[c].writers[p].emits]]>>
  /\ lastEmit' = <<>>
  /\ UNCHANGED <<auxVars, backend, kind, files, ncalls, putKeys, records, sqlQueue, tasks>>

Partitions == {getPartition(k) : k \in Keys(kind)}

WriterStep(c, p) ==
  \/ WriterExists(c, p)
  \/ WriterFirst(c, p)
  \/ WriterLast(c, p)
  \/ WriterMixExists(c, p)
  \/ WriterMixRead(c, p)
  \/ WriterEmit(c, p)

(***************************************************************************)
(* entry/sqlite: the relational form of a value.  A Number or a Date is    *)
(* stored in a NUMERIC column, a String or a URL in a TEXT column.         *)
(***************************************************************************)
Fields == <<"index", "value">>

NumStores == 2

Stores == 1..NumStores

sqlHydrateGeneric(value) ==
  IF value.kind = "Boolean" THEN [class |-> "NUMERIC", v |-> IF value.v THEN 1 ELSE 0]
  ELSE IF value.kind = "Number" THEN [class |-> "NUMERIC", v |-> value.v]
  ELSE IF value.kind = "String" THEN [class |-> "TEXT", v |-> value.v]
  ELSE IF value.kind = "Date" THEN [class |-> "NUMERIC", v |-> value.v]
  ELSE IF value.kind = "URL" THEN [class |-> "TEXT", v |-> value.v]
  ELSE IF value.kind = "Null" THEN [class |-> "TEXT", v |-> NullText]
  ELSE [class |-> "TEXT", v |-> EmbeddedText(value.v)]

\* Number and String return the stored value as it is; a text makes an
\* invalid Date and, unless it stands for a href, makes new URL throw
sqlDehydrateGeneric(type, value) ==
  IF type = "Boolean"
  THEN [kind |-> "Boolean", v |-> IF value.class = "NUMERIC" THEN value.v # 0 ELSE value.v # <<>>]
  ELSE IF type = "Date"
  THEN [kind |-> "Date", v |-> IF value.class = "NUMERIC" THEN value.v ELSE NaN]
  ELSE IF type = "Embedded" THEN EmbeddedParse(value.v)
  ELSE IF type = "URL" /\ ~IsNumeral(value.v) THEN [kind |-> "TypeError", v |-> value.v]
  ELSE [kind |-> type, v |-> value.v]

\* SQLite hydrate(value): an array becomes the JSON text of its elements
sqlHydrate(value) ==
  IF value.isArray
  THEN [class |-> "TEXT",
        v |-> JSONStringify(
                [i \in 1..Len(value.elems) |->
                   IF sqlHydrateGeneric(value.elems[i]).class = "NUMERIC"
                   THEN NumberToString(sqlHydrateGeneric(value.elems[i]).v)
                   ELSE sqlHydrateGeneric(value.elems[i]).v],
                \E i \in 1..Len(value.elems) :
                  sqlHydrateGeneric(value.elems[i]).class = "TEXT")]
  ELSE sqlHydrateGeneric(value.elems[1])

\* the element JSON.parse makes of the text of an element
sqlElement(text, quoted) ==
  IF quoted THEN [class |-> "TEXT", v |-> text]
  ELSE [class |-> "NUMERIC", v |-> ParseInteger(text)]

\* SQLite dehydrate(meta, value)
sqlDehydrate(meta, value) ==
  IF meta.isList
  THEN IF value.v = NullText
       THEN [isArray |-> FALSE, elems |-> <<[kind |-> "TypeError", v |-> value.v]>>]
       ELSE [isArray |-> TRUE,
             elems |-> [i \in 1..Len(JSONParse(value.v)) |->
                          sqlDehydrateGeneric(
                            meta.type,
                            sqlElement(JSONParse(value.v)[i],
                                       \E j \in 1..Len(value.v) : value.v[j] = Quote))]]
  ELSE [isArray |-> FALSE, elems |-> <<sqlDehydrateGeneric(meta.type, value)>>]

sqlHydrateEntry(entry) == [key |-> sqlHydrateGeneric(entry.key), val |-> entry.val]

RECURSIVE chunk(_, _)
\* lodash chunk(array, size)
chunk(s, size) ==
  IF s = <<>> \/ size < 1 THEN <<>>
  ELSE IF Len(s) <= size THEN <<s>>
  ELSE <<SubSeq(s, 1, size)>> \o chunk(SubSeq(s, size + 1, Len(s)), size)

\* MAX_INPUT entries to a statement, whatever the number of fields
SubsetSizeIgnoringFields(fields) == MAX_INPUT

\* Math.floor(MAX_INPUT / fields.length)
SubsetSize(fields) == MAX_INPUT \div fields

ChunkSize == SubsetSize(Len(Fields))

RECURSIVE InsertOrReplace(_, _)
\* ON CONFLICT REPLACE: a row whose primary key is in the table replaces it
InsertOrReplace(table, rows) ==
  IF rows = <<>> THEN table
  ELSE InsertOrReplace(
         IF \E i \in 1..Len(table) : table[i].key = Head(rows).key
         THEN [i \in 1..Len(table) |->
                 IF table[i].key = Head(rows).key THEN Head(rows) ELSE table[i]]
         ELSE Append(table, Head(rows)),
         Tail(rows))

RECURSIVE InsertOrIgnore(_, _)
\* INSERT INTO records ... VALUES rows ON CONFLICT DO NOTHING: a row whose
\* primary key is already in the table is skipped
InsertOrIgnore(table, rows) ==
  IF rows = <<>> THEN table
  ELSE InsertOrIgnore(
         IF \E i \in 1..Len(table) : table[i].key = Head(rows).key
         THEN table ELSE Append(table, Head(rows)),
         Tail(rows))

\* SQLiteStore.get(key): SELECT * FROM records WHERE index = hydrate(key)
SqlGet(table, key) ==
  LET found == {i \in 1..Len(table) : table[i].key = sqlHydrateGeneric(key)}
  IN  IF found = {} THEN <<>>
      ELSE LET i == CHOOSE j \in found : \A l \in found : j <= l
           IN  <<[key |-> sqlDehydrateGeneric(kind, table[i].key), val |-> table[i].val,
                  ref |-> RowRef(i)]>>

Running(t) == t \in DOMAIN tasks /\ tasks[t].pc \in {"opening", "inserting", "closing"}

Settled(t) == t \in DOMAIN tasks /\ tasks[t].pc \in {"done", "noop"}

\* a queue that counts the tasks the other instances run, not its own
NumRunningElsewhere(s) ==
  Cardinality({t \in DOMAIN tasks : tasks[t].store # s /\ Running(t)})

NumRunning(s) == Cardinality({t \in DOMAIN tasks : tasks[t].store = s /\ Running(t)})

\* put(...entries) on the relational store: a call without entries returns at
\* once, any other call pushes its task on the queue of the instance
SqlPut(c, s, b) ==
  /\ backend = "sqlite"
  /\ ncalls < MaxCalls
  /\ c = ncalls + 1
  /\ tasks' = [x \in DOMAIN tasks \cup {c} |->
                 IF x = c
                 THEN [store |-> s, subsets |-> <<>>,
                       entries |-> MakeEntries(b),
                       pre |-> IF Len(b) > 0 THEN records ELSE <<>>,
                       pc |-> IF Len(b) > 0 THEN "queued" ELSE "noop"]
                 ELSE tasks[x]]
  /\ sqlQueue' = IF Len(b) > 0 THEN [sqlQueue EXCEPT ![s] = Append(@, c)] ELSE sqlQueue
  /\ ncalls' = ncalls + 1
  /\ putKeys' = putKeys \cup {b[i][1] : i \in 1..Len(b)}
  /\ lastPut' = IF Len(b) > 0 THEN <<>>
                ELSE <<[call |-> c, entries |-> <<>>, pre |-> records]>>
  /\ UNCHANGED <<auxVars, backend, kind, records, csvVars>>

\* the queue of an instance hands its next task to the worker: exec opens the
\* database
SqlStart(s) ==
  /\ sqlQueue[s] # <<>>
  /\ NumRunning(s) < QueueConcurrency
  /\ tasks' = [tasks EXCEPT ![Head(sqlQueue[s])].pc = "opening"]
  /\ sqlQueue' = [sqlQueue EXCEPT ![s] = Tail(@)]
  /\ lastPut' = <<>>
  /\ UNCHANGED <<auxVars, backend, kind, ncalls, putKeys, records, csvVars>>

\* the database is open: the entries are validated and split into chunks
SqlOpened(t) ==
  /\ t \in DOMAIN tasks
  /\ tasks[t].pc = "opening"
  /\ tasks' = [tasks EXCEPT ![t].pc = "inserting",
                            ![t].subsets = chunk(tasks[t].entries, ChunkSize)]
  /\ lastPut' = <<>>
  /\ UNCHANGED <<auxVars, backend, kind, ncalls, putKeys, records, sqlQueue, csvVars>>

\* await db.run(INSERT ...) for the next chunk
SqlInsert(t) ==
  /\ t \in DOMAIN tasks
  /\ tasks[t].pc = "inserting"
  /\ tasks[t].subsets # <<>>
  /\ LET subset == Head(tasks[t].subsets)
     IN  records' = InsertOrIgnore(records, [i \in 1..Len(subset) |-> sqlHydrateEntry(subset[i])])
  /\ tasks' = [tasks EXCEPT ![t].subsets = Tail(@),
                            ![t].pc = IF Len(tasks[t].subsets) = 1 THEN "closing" ELSE "inserting"]
  /\ lastPut' = <<>>
  /\ UNCHANGED <<auxVars, backend, kind, ncalls, putKeys, sqlQueue, csvVars>>

\* await db.close(): the task is over and put returns
SqlClose(t) ==
  /\ t \in DOMAIN tasks
  /\ tasks[t].pc = "closing"
  /\ tasks' = [tasks EXCEPT ![t].pc = "done", ![t].entries = <<>>, ![t].pre = <<>>]
  /\ lastPut' = <<[call |-> t, entries |-> tasks[t].entries, pre |-> tasks[t].pre]>>
  /\ UNCHANGED <<auxVars, backend, kind, ncalls, putKeys, records, sqlQueue, csvVars>>

SqlStep ==
  \/ \E s \in Stores : SqlStart(s)
  \/ \E t \in 1..MaxCalls : SqlOpened(t) \/ SqlInsert(t) \/ SqlClose(t)

CsvStep ==
  \/ \E c \in 1..MaxCalls, p \in Partitions : WriterStep(c, p)
  \/ \E c \in 1..MaxCalls : CsvPutReturn(c)

vars == <<backend, kind, files, calls, ncalls, putKeys, lastPut, lastEmit, records, sqlQueue,
          tasks, template, cached, persisted, lastOp, pure, keyRange, db>>

\* getSchemaFromPrototype(Entry): the index field of the kind under study and
\* a String field
EntrySchema ==
  [index |-> "index",
   map |-> [f \in {"index", "value"} |->
              [type |-> TypeIdentifier(IF f = "index" THEN kind ELSE "String"),
               isList |-> FALSE, isNullable |-> FALSE]]]

\* no schema
NoSchema == <<>>

\* an optional schema that is there
Some(schema) == <<schema>>

\* every instance was given the Entry prototype and has resolved its schema
InitResolved ==
  /\ template = [s \in Stores |-> Some(EntrySchema)]
  /\ cached = [s \in Stores |-> Some(EntrySchema)]
  /\ persisted = Some(encodeSchema(EntrySchema))
  /\ lastOp = <<>>
  /\ pure = <<>>
  /\ keyRange = "narrow"
  /\ db = NoDatabase

InitCommon ==
  /\ kind \in Kinds
  /\ files = <<>>
  /\ calls = <<>>
  /\ ncalls = 0
  /\ putKeys = {}
  /\ lastPut = <<>>
  /\ lastEmit = <<>>
  /\ records = <<>>
  /\ sqlQueue = [s \in Stores |-> <<>>]
  /\ tasks = <<>>
  /\ InitResolved

Init == backend \in Backends /\ InitCommon

NoCallInFlight ==
  /\ DOMAIN calls = {}
  /\ \A t \in DOMAIN tasks : Settled(t)

\* put calls made one after the other: a call is made when none is in flight
Next ==
  \/ \E b \in Batches : NoCallInFlight /\ CsvPut(ncalls + 1, b)
  \/ \E b \in Batches, s \in Stores : NoCallInFlight /\ SqlPut(ncalls + 1, s, b)
  \/ CsvStep
  \/ SqlStep

Spec == Init /\ [][Next]_vars

\* put calls made at any time on the CSV store
InitCsv == backend = "csv" /\ InitCommon /\ kind \in {"Number", "String"}

NextCsvConc ==
  \/ \E b \in Batches : CsvPut(ncalls + 1, b)
  \/ CsvStep

SpecCsvConc == InitCsv /\ [][NextCsvConc]_vars

\* put calls made at any time on the relational store, through any instance;
\* the event loop runs every task that is ready
InitSql == backend = "sqlite" /\ InitCommon

\* the calls of this specification carry at most one entry
ShortBatches == {b \in Batches : Len(b) <= 1}

NextSqlConc ==
  \/ \E b \in ShortBatches, s \in Stores : SqlPut(ncalls + 1, s, b)
  \/ SqlStep

SpecSqlConc == InitSql /\ [][NextSqlConc]_vars /\ WF_vars(SqlStep)

(***************************************************************************)
(* Reading the CSV store.                                                  *)
(***************************************************************************)
\* CSVStore.get(key): <<>> for undefined, else the entry in a 1-tuple
CsvGet(fs, key) ==
  LET encodedKey == hydrateGeneric(key)
      partition == getPartition(key)
      csvEntries == IF partition \in DOMAIN fs THEN dehydrateCSV(fs[partition]) ELSE <<>>
      found == {i \in 1..Len(csvEntries) : csvEntries[i].key = encodedKey}
  IN  IF found = {} THEN <<>>
      ELSE LET i == CHOOSE j \in found : \A l \in found : j <= l
           IN  <<dehydrateNative(kind, csvEntries[i], RowRef(i))>>

\* deep equality of two entries (toEqual)
EntryEq(a, b) == a.key = b.key /\ a.val = b.val

\* the data rows of a partition file
DataRows(lines) == IF lines = <<>> THEN <<>> ELSE Tail(lines)

\* the index cell of a row, read exactly: a number in thousandths for a
\* Number or Date cell, the text for a String or URL cell
CellGt(a, b) ==
  IF kind = "Number" THEN ParseInteger(a) > ParseInteger(b)
  ELSE IF kind = "Date" THEN Thousandths(a) > Thousandths(b)
  ELSE StrGt(a, b)

\* the arguments of a call whose key occurs once in the call
Unrepeated(entries, i) == \A j \in 1..Len(entries) : j # i => entries[j].key # entries[i].key

\* read-your-writes on the CSV store
CsvReadYourWrites ==
  (backend = "csv" /\ lastPut # <<>>) =>
    \A i \in 1..Len(lastPut[1].entries) :
      LET e == lastPut[1].entries[i]
      IN  (CsvGet(lastPut[1].pre, e.key) = <<>> /\ Unrepeated(lastPut[1].entries, i)) =>
            /\ CsvGet(files, e.key) # <<>>
            /\ EntryEq(CsvGet(files, e.key)[1], e)

\* read-your-writes on the relational store
SqlReadYourWrites ==
  (backend = "sqlite" /\ lastPut # <<>>) =>
    \A i \in 1..Len(lastPut[1].entries) :
      LET e == lastPut[1].entries[i]
      IN  (SqlGet(lastPut[1].pre, e.key) = <<>> /\ Unrepeated(lastPut[1].entries, i)) =>
            /\ SqlGet(records, e.key) # <<>>
            /\ EntryEq(SqlGet(records, e.key)[1], e)

(***************************************************************************)
(* C1: on both backends, once a put call has returned, get of the key of   *)
(* every entry of the call whose key was not stored before the call and is *)
(* not repeated in the call returns an entry equal to it.                  *)
(***************************************************************************)
C1_ReadYourWrites == CsvReadYourWrites /\ SqlReadYourWrites

(***************************************************************************)
(* C2: no partition file of the CSV store holds two data rows with the     *)
(* same index key.                                                         *)
(***************************************************************************)
C2_KeyUniqueness ==
  \A p \in DOMAIN files :
    \A i, j \in 1..Len(DataRows(files[p])) :
      i # j => DataRows(files[p])[i].key # DataRows(files[p])[j].key

(***************************************************************************)
(* C3: the data rows of every partition file of the CSV store are in       *)
(* ascending order of the index field (no row is followed by a row with a  *)
(* smaller index).                                                         *)
(***************************************************************************)
C3_Sortedness ==
  \A p \in DOMAIN files :
    \A i, j \in 1..Len(DataRows(files[p])) :
      i < j => ~CellGt(DataRows(files[p])[i].key, DataRows(files[p])[j].key)

\* a rewrite has just merged a batch that starts before the last stored row
C3_Witness ==
  /\ lastEmit # <<>>
  /\ lastEmit[1].mode = "write"
  /\ lastEmit[1].existed
  /\ CellGt(lastEmit[1].before[Len(lastEmit[1].before)].key,
            hydrateGeneric(lastEmit[1].batch[1].key))
  /\ Len(files[lastEmit[1].partition]) >= 3

(***************************************************************************)
(* C4: after put(e) has returned and then put(e') with the key of e has    *)
(* returned, get of that key on the CSV store returns e'.                  *)
(***************************************************************************)
C4_LaterReplaces ==
  (backend = "csv" /\ lastPut # <<>> /\ Len(lastPut[1].entries) = 1) =>
    LET e == lastPut[1].entries[1]
    IN  CsvGet(lastPut[1].pre, e.key) # <<>> =>
          /\ CsvGet(files, e.key) # <<>>
          /\ EntryEq(CsvGet(files, e.key)[1], e)

(***************************************************************************)
(* C9: a writer uses append mode if and only if the partition file exists  *)
(* and the smallest index of its batch is strictly greater than the index  *)
(* of the last row of the file.                                            *)
(***************************************************************************)
StrictlyLater(emit) ==
  /\ emit.existed
  /\ \A i \in 1..Len(emit.batch) :
       CellGt(hydrateGeneric(emit.batch[i].key), emit.before[Len(emit.before)].key)

C9_ModeDecision ==
  lastEmit # <<>> => (lastEmit[1].mode = "append" <=> StrictlyLater(lastEmit[1]))

(***************************************************************************)
(* C10: when the batch of a writer for an existing partition is strictly   *)
(* later than the last row of the file, the file after the put is its      *)
(* previous content followed by the rows of the batch in ascending order   *)
(* without a header, and the writer has called neither read nor write.     *)
(***************************************************************************)
C10_AppendFrame ==
  (lastEmit # <<>> /\ StrictlyLater(lastEmit[1])) =>
    LET emit == lastEmit[1]
        after == files[emit.partition]
        added == SubSeq(after, Len(emit.before) + 1, Len(after))
    IN  /\ Len(after) = Len(emit.before) + Len(emit.batch)
        /\ SubSeq(after, 1, Len(emit.before)) = emit.before
        /\ \A i \in 1..Len(added) : added[i] # Header
        /\ \A i \in 1..Len(added) :
             \E j \in 1..Len(emit.batch) : added[i] = hydrateEntry(emit.batch[j])
        /\ \A i, j \in 1..Len(added) : i < j => ~CellGt(added[i].key, added[j].key)
        /\ emit.ops \cap {"read", "write"} = {}

\* a batch of two entries has just been appended to an existing partition
C10_Witness ==
  /\ lastEmit # <<>>
  /\ StrictlyLater(lastEmit[1])
  /\ lastEmit[1].mode = "append"
  /\ Len(lastEmit[1].batch) = 2

(***************************************************************************)
(* C5: on the relational store, once an entry with key k is stored, no     *)
(* later put of an entry with key k changes what get(k) returns, and the   *)
(* put completes.                                                          *)
(***************************************************************************)
C5_FirstWins ==
  [][\A k \in Keys(kind) :
       SqlGet(records, k) # <<>> => SqlGet(records', k) = SqlGet(records, k)]_vars

\* a put of an entry that differs from the stored entry of its key has
\* returned and the stored entry is the one stored before the call
C5_Witness ==
  /\ backend = "sqlite"
  /\ lastPut # <<>>
  /\ \E i \in 1..Len(lastPut[1].entries) :
       LET e == lastPut[1].entries[i]
       IN  /\ SqlGet(lastPut[1].pre, e.key) # <<>>
           /\ SqlGet(lastPut[1].pre, e.key)[1].val # e.val
           /\ SqlGet(records, e.key) = SqlGet(lastPut[1].pre, e.key)

(***************************************************************************)
(* C6: two put calls on one CSV store that are in flight at the same time  *)
(* and target the same partition leave, once both have returned, what      *)
(* running one after the other leaves: no entry is lost and the rows are   *)
(* in ascending order.                                                     *)
(***************************************************************************)
C6_ConcurrentPutsSerialized ==
  (backend = "csv" /\ DOMAIN calls = {}) =>
    /\ \A k \in putKeys : CsvGet(files, k) # <<>>
    /\ C3_Sortedness

(***************************************************************************)
(* C7: for one relational store at most one put task is executing at any   *)
(* time, the tasks run in the order of the calls, and each call completes. *)
(***************************************************************************)
OneTaskAtATime == \A s \in Stores : NumRunning(s) <= 1

InCallOrder ==
  \A t1, t2 \in DOMAIN tasks :
    (t1 < t2 /\ tasks[t1].store = tasks[t2].store /\ tasks[t1].pc # "noop"
       /\ tasks[t2].pc \notin {"queued", "noop"}) => tasks[t1].pc = "done"

C7_WriteSerialization ==
  /\ [](OneTaskAtATime /\ InCallOrder)
  /\ \A t \in 1..MaxCalls : [](t \in DOMAIN tasks => <>Settled(t))

\* a task of an instance is executing and a later call of that instance waits
C7_Witness ==
  \E s \in Stores : NumRunning(s) = 1 /\ sqlQueue[s] # <<>>

(***************************************************************************)
(* C8 (as stated): put tasks on one database file never run at the same    *)
(* time, even when the calls are made through different store instances.   *)
(***************************************************************************)
C8_ProcessWideQueue ==
  Cardinality({t \in DOMAIN tasks : Running(t)}) <= 1

(***************************************************************************)
(* C8 (amended): the write queue belongs to the store instance: two put    *)
(* tasks that run at the same time on one database file were issued        *)
(* through different store instances.                                      *)
(***************************************************************************)
C8_QueuePerInstance ==
  \A t1, t2 \in DOMAIN tasks :
    (t1 # t2 /\ Running(t1) /\ Running(t2)) => tasks[t1].store # tasks[t2].store

\* two tasks of two instances are executing at the same time
C8_Witness ==
  \E t1, t2 \in DOMAIN tasks :
    t1 # t2 /\ Running(t1) /\ Running(t2) /\ tasks[t1].store # tasks[t2].store

(***************************************************************************)
(* encodeSchema and decodeSchema applied on their own to a schema.         *)
(***************************************************************************)
MaxFields == 2

storeVars == <<backend, kind, files, calls, ncalls, putKeys, lastPut, lastEmit, records,
               sqlQueue, tasks>>

TypeMetas ==
  [type : {TypeIdentifier(n) : n \in GenericTypeNames}, isList : BOOLEAN, isNullable : BOOLEAN]

\* the schemas of n fields whose index is field i
SchemasOf(n, i) ==
  {[index |-> FieldNames[i], map |-> m] :
     m \in {x \in [{FieldNames[j] : j \in 1..n} -> TypeMetas] :
              ~x[FieldNames[i]].isList /\ ~x[FieldNames[i]].isNullable}}

\* the schemas with one index field, which is neither a list nor nullable
WellFormedSchemas ==
  UNION {SchemasOf(ni[1], ni[2]) :
           ni \in {x \in (1..MaxFields) \X (1..MaxFields) : x[2] <= x[1]}}

InitIdle ==
  /\ backend = "csv"
  /\ kind = "Number"
  /\ files = <<>> /\ calls = <<>> /\ ncalls = 0 /\ putKeys = {}
  /\ lastPut = <<>> /\ lastEmit = <<>>
  /\ records = <<>> /\ sqlQueue = [s \in Stores |-> <<>>] /\ tasks = <<>>
  /\ template = [s \in Stores |-> NoSchema]
  /\ cached = [s \in Stores |-> NoSchema]
  /\ persisted = NoSchema
  /\ lastOp = <<>>
  /\ keyRange = "narrow"
  /\ db = NoDatabase

InitCodec ==
  /\ InitIdle
  /\ \E S \in WellFormedSchemas :
       pure = [stage |-> "schema", schema |-> S, encoded |-> <<>>, decoded |-> <<>>]

EncodeSchema ==
  /\ pure.stage = "schema"
  /\ pure' = [pure EXCEPT !.stage = "encoded", !.encoded = encodeSchema(pure.schema)]
  /\ UNCHANGED <<storeVars, template, cached, persisted, lastOp, keyRange, db>>

DecodeSchema ==
  /\ pure.stage = "encoded"
  /\ pure' = [pure EXCEPT !.stage = "decoded", !.decoded = decodeSchema(pure.encoded)]
  /\ UNCHANGED <<storeVars, template, cached, persisted, lastOp, keyRange, db>>

NextCodec == EncodeSchema \/ DecodeSchema

SpecCodec == InitCodec /\ [][NextCodec]_vars

(***************************************************************************)
(* C20: for every well-formed schema S (one index field, neither a list    *)
(* nor nullable; every other field of any kind, list or not, nullable or   *)
(* not), decodeSchema(encodeSchema(S)) = S.                                *)
(***************************************************************************)
C20_SchemaRoundTrip == pure.stage = "decoded" => pure.decoded = pure.schema

\* a schema whose index is not the first field and that has a nullable list
\* has been encoded and decoded
C20_Witness ==
  /\ pure.stage = "decoded"
  /\ pure.schema.index # FieldNames[1]
  /\ \E f \in DOMAIN pure.schema.map :
       pure.schema.map[f].isList /\ pure.schema.map[f].isNullable

(***************************************************************************)
(* schema.ts: validate applied on its own.  A value is known by what       *)
(* typeof, instanceof and Array.isArray tell of it: whether it is an       *)
(* array, and the kind of each element (of the value itself when it is no  *)
(* array): one of the type names, Nullable for null, Unsupported for       *)
(* undefined or any other value inferTypeByValue does not know.  The       *)
(* field names are names that ensureKeyCompliant accepts.                  *)
(***************************************************************************)
MaxList == 1

ValidateKinds == {"Number", "String"}

ValidateFields == {"index", "value", "isNullable"}

ValueTags == ValidateKinds \cup {"Nullable", "Unsupported"}

Scalars == {[isArray |-> FALSE, elems |-> <<t>>] : t \in ValueTags}

Arrays == UNION {{[isArray |-> TRUE, elems |-> e] : e \in [1..n -> ValueTags]} : n \in 0..MaxList}

\* the first element of an array, the value itself otherwise
FirstOf(value) ==
  IF value.isArray /\ value.elems = <<>> THEN "Unsupported" ELSE value.elems[1]

\* inferTypeByValue throws UnsupportedTypeError
Throws(value) == FirstOf(value) = "Unsupported"

\* inferTypeMapFromEntry, for an entry none of whose values throws
inferTypeMapFromEntry(entry) ==
  [f \in DOMAIN entry |->
     [type |-> TypeIdentifier(FirstOf(entry[f])),
      isList |-> entry[f].isArray,
      isNullable |-> ~entry[f].isArray /\ entry[f].elems[1] = "Nullable"]]

NullableMeta == [type |-> TypeIdentifier("Nullable"), isList |-> FALSE, isNullable |-> TRUE]

\* the customizer of validate applied to the metadata of one field
customizer(expectedMeta, derivedMeta) ==
  \/ expectedMeta = derivedMeta
  \/ /\ expectedMeta.isNullable
     /\ \/ [expectedMeta EXCEPT !.isNullable = FALSE] = derivedMeta
        \/ NullableMeta = derivedMeta

\* the customizer of validate applied to the two type maps, which is the
\* first call isEqualWith makes: typeMap.isNullable is undefined unless a
\* field has that name, and then it is an object, which is truthy, and
\* neither comparison of the second operand can hold, because derived maps
\* every field to an object
customizerOfMaps(typeMap, derived) ==
  IF typeMap = derived THEN "true"
  ELSE IF "isNullable" \in DOMAIN typeMap THEN "false"
  ELSE "undefined"

\* isEqualWith(typeMap, derived, customizer)
isEqualWith(typeMap, derived) ==
  LET result == customizerOfMaps(typeMap, derived)
  IN  IF result # "undefined" THEN result = "true"
      ELSE /\ DOMAIN typeMap = DOMAIN derived
           /\ \A f \in DOMAIN typeMap : customizer(typeMap[f], derived[f])

\* validate(typeMap, entry): the error it throws, or ok
validate(typeMap, entry) ==
  IF \E f \in DOMAIN entry : Throws(entry[f]) THEN "UnsupportedType"
  ELSE IF isEqualWith(typeMap, inferTypeMapFromEntry(entry)) THEN "ok"
  ELSE "Validation"

FieldSets == {F \in SUBSET ValidateFields : Cardinality(F) <= MaxFields}

ValidateMetas ==
  [type : {TypeIdentifier(n) : n \in ValidateKinds}, isList : BOOLEAN, isNullable : BOOLEAN]

TypeMaps == UNION {[F -> ValidateMetas] : F \in FieldSets \ {{}}}

Entries == UNION {[F -> Scalars \cup Arrays] : F \in FieldSets}

InitValidate ==
  /\ InitIdle
  /\ \E typeMap \in TypeMaps, entry \in Entries :
       pure = [stage |-> "input", typeMap |-> typeMap, entry |-> entry, result |-> "none"]

Validate ==
  /\ pure.stage = "input"
  /\ pure' = [pure EXCEPT !.stage = "validated",
                          !.result = validate(pure.typeMap, pure.entry)]
  /\ UNCHANGED <<storeVars, template, cached, persisted, lastOp, keyRange, db>>

SpecValidate == InitValidate /\ [][Validate]_vars

\* the value is null
IsNull(value) == ~value.isArray /\ value.elems[1] = "Nullable"

\* the entry has exactly the fields of the type map and every value is of
\* the declared kind and shape, or is null in a nullable field
Conforms(typeMap, entry) ==
  /\ DOMAIN entry = DOMAIN typeMap
  /\ \A f \in DOMAIN typeMap :
       IF IsNull(entry[f]) THEN typeMap[f].isNullable
       ELSE /\ ~Throws(entry[f])
            /\ TypeIdentifier(FirstOf(entry[f])) = typeMap[f].type
            /\ entry[f].isArray = typeMap[f].isList

(***************************************************************************)
(* C19: validate(typeMap, entry) accepts the entry if and only if it has   *)
(* exactly the fields of the type map and every value has the declared     *)
(* kind and list shape, where null is accepted in a nullable field only;   *)
(* an entry with a missing or an extra field is rejected with a            *)
(* Validation error.                                                       *)
(***************************************************************************)
C19_ValidateIff ==
  pure.stage = "validated" =>
    /\ (pure.result = "ok") <=> Conforms(pure.typeMap, pure.entry)
    /\ (DOMAIN pure.entry # DOMAIN pure.typeMap
          /\ \A f \in DOMAIN pure.entry : ~Throws(pure.entry[f]))
         => pure.result = "Validation"

(***************************************************************************)
(* The schema of a store: ensureSchema, initialise and getSchema of both   *)
(* stores.  An optional schema is <<>> or the schema in a 1-tuple.         *)
(***************************************************************************)
\* a prototype that declares the value field nullable
NullableValueSchema == [EntrySchema EXCEPT !.map.value.isNullable = TRUE]

\* the schema row of a database written by an earlier release: the index is
\* marked with ! in place of *
LegacyEncoded(schema) ==
  [f \in DOMAIN schema.map |->
     (IF f = schema.index THEN <<"!">> ELSE <<>>) \o encodeField(schema.map[f], FALSE)]

\* value.includes('!')
IncludesBang(value) == \E i \in 1..Len(value) : value[i] = "!"

\* value.replace('!', ''): the first ! is removed
RemoveBang(value) ==
  LET i == CHOOSE j \in 1..Len(value) : value[j] = "!" /\ \A l \in 1..(j - 1) : value[l] # "!"
  IN  SubSeq(value, 1, i - 1) \o SubSeq(value, i + 1, Len(value))

\* SQLiteStore.getSchema: mapValues(encoded, value => value.includes('!') ? ...)
compatiable(encoded) ==
  [f \in DOMAIN encoded |->
     IF IncludesBang(encoded[f]) THEN <<"*">> \o RemoveBang(encoded[f]) ELSE encoded[f]]

\* getSchema: the stored schema, if any, and the persisted schema afterwards;
\* the relational store rewrites the schema row of an earlier release
getSchema ==
  IF persisted = <<>> THEN [schema |-> <<>>, persisted |-> <<>>]
  ELSE IF backend = "csv"
  THEN [schema |-> <<decodeSchema(persisted[1])>>, persisted |-> persisted]
  ELSE LET schema == decodeSchema(compatiable(persisted[1]))
       IN  [schema |-> <<schema>>,
            persisted |-> IF compatiable(persisted[1]) # persisted[1]
                          THEN <<encodeSchema(schema)>> ELSE persisted]

\* ensureSchemaAgreed throws
Disagreed(expected, challenger) ==
  expected # <<>> /\ challenger # <<>> /\ expected[1] # challenger[1]

\* initialise of instance s: the error thrown or none, the schema returned
\* and the persisted schema afterwards
initialise(s) ==
  LET stored == getSchema
      provided == template[s]
  IN  IF stored.schema = <<>> /\ provided # <<>>
      THEN [error |-> "none", schema |-> provided,
            persisted |-> <<encodeSchema(provided[1])>>]
      ELSE IF Disagreed(provided, stored.schema)
      THEN [error |-> "SchemaMismatched", schema |-> <<>>, persisted |-> stored.persisted]
      ELSE IF provided # <<>>
      THEN [error |-> "none", schema |-> provided, persisted |-> stored.persisted]
      ELSE IF stored.schema # <<>>
      THEN [error |-> "none", schema |-> stored.schema, persisted |-> stored.persisted]
      ELSE [error |-> "MissingSchema", schema |-> <<>>, persisted |-> stored.persisted]

\* ensureSchema: this.schema ??= await this.initialise()
ensureSchema(s) ==
  IF cached[s] # <<>>
  THEN [error |-> "none", schema |-> cached[s], persisted |-> persisted]
  ELSE initialise(s)

(***************************************************************************)
(* The read operations.  A result is <<>> for undefined, or the entry or   *)
(* key in a 1-tuple.                                                       *)
(***************************************************************************)
\* parseInt of a partition name or of a part of it
parseInt(s) == ParseInteger(s)

\* the position of the first - after the first character, 0 when none
DashPos(s) ==
  IF \E i \in 2..Len(s) : s[i] = "-"
  THEN CHOOSE i \in 2..Len(s) : s[i] = "-" /\ \A j \in 2..(i - 1) : s[j] # "-"
  ELSE 0

\* YearMonthPartitioner.extractYearMonth
extractYearMonth(partition) ==
  [year |-> parseInt(SubSeq(partition, 1, DashPos(partition) - 1)),
   month |-> parseInt(SubSeq(partition, DashPos(partition) + 1, Len(partition)))]

\* the value the comparator of YearMonthPartitioner.getRange orders by
MonthNumber(partition) ==
  extractYearMonth(partition).year * 12 + extractYearMonth(partition).month

\* FixedSizePartitioner.getRange on a non-empty list
FixedSizeGetRange(partitions) ==
  LET numbers == {parseInt(p) : p \in partitions}
  IN  [first |-> NumberToString(CHOOSE n \in numbers : \A o \in numbers : n <= o),
       last |-> NumberToString(CHOOSE n \in numbers : \A o \in numbers : n >= o)]

\* YearMonthPartitioner.getRange on a non-empty list of names of different
\* months
YearMonthGetRange(partitions) ==
  [first |-> CHOOSE p \in partitions : \A o \in partitions : MonthNumber(p) <= MonthNumber(o),
   last |-> CHOOSE p \in partitions : \A o \in partitions : MonthNumber(p) >= MonthNumber(o)]

\* partitioner.getRange(names) of the partitioner of the store: <<>> for
\* undefined; SinglePartitioner answers its name whatever the list
getRange(partitions) ==
  IF kind \in {"String", "URL"}
  THEN <<[first |-> SingleGetPartition, last |-> SingleGetPartition]>>
  ELSE IF partitions = {} THEN <<>>
  ELSE IF kind = "Number" THEN <<FixedSizeGetRange(partitions)>>
  ELSE <<YearMonthGetRange(partitions)>>

\* partitionRange: the names of the files of collection('csv')
partitionRange == getRange(DOMAIN files)

\* a getLast that reads the partition and takes its last row
getLastCallsRead(target) == {[call |-> "read", path |-> target, n |-> 0]}

\* getLast(): the calls of the storage adapter on the file of the target
getLastCalls(target) ==
  {[call |-> "head", path |-> target, n |-> 1], [call |-> "tail", path |-> target, n |-> 1]}

\* getFirst(): HEADER_AND_FIRST_LINE = 2
getFirstCalls(target) == {[call |-> "head", path |-> target, n |-> 2]}

\* the adapter calls of getFirst() and getLast() on partition files, once the
\* schema is resolved
CsvTopCalls(order) ==
  LET range == partitionRange
  IN  IF range = <<>> THEN {}
      ELSE IF order = "ASC" THEN getFirstCalls(range[1].first)
      ELSE getLastCalls(range[1].last)

\* CSVStore.getFirst() and getLast() once the schema is resolved:
\* LocalStorage.head and tail throw when the file is missing
CsvTop(order) ==
  LET range == partitionRange
      target == IF order = "ASC" THEN range[1].first ELSE range[1].last
  IN  IF range = <<>> THEN [error |-> "none", out |-> <<>>]
      ELSE IF target \notin DOMAIN files THEN [error |-> "ENOENT", out |-> <<>>]
      ELSE [error |-> "none",
            out |-> IF order = "ASC" THEN getFirst(files[target]) ELSE getLast(files[target])]

\* the order of two values of the index column: numeric for a NUMERIC
\* column, byte by byte for a TEXT column
ColumnGt(a, b) == IF a.class = "NUMERIC" THEN a.v > b.v ELSE StrGt(a.v, b.v)

\* SQLiteStore.getTop: SELECT * from records ORDER BY index order LIMIT 1
getTop(order) ==
  IF records = <<>> THEN <<>>
  ELSE LET i == CHOOSE j \in 1..Len(records) :
                  \A l \in 1..Len(records) :
                    IF order = "ASC" THEN ~ColumnGt(records[j].key, records[l].key)
                    ELSE ~ColumnGt(records[l].key, records[j].key)
       IN  <<[key |-> sqlDehydrateGeneric(kind, records[i].key), val |-> records[i].val,
              ref |-> RowRef(i)]>>

\* first and last of instance s: the outcome of ensureSchema, then the entry
TopOutcome(s, order) ==
  LET es == ensureSchema(s)
      top == IF backend = "csv" THEN CsvTop(order)
             ELSE [error |-> "none", out |-> getTop(order)]
  IN  IF es.error # "none" THEN [es |-> es, error |-> es.error, out |-> <<>>, calls |-> {}]
      ELSE [es |-> es, error |-> top.error, out |-> top.out,
            calls |-> IF backend = "csv" THEN CsvTopCalls(order) ELSE {}]

\* CSVStore.firstKey and lastKey: the index is read from this.schema when the
\* getter is called, before first or last has run; top is what first or
\* last answers
CsvKeyOutcome(s, top) ==
  LET index == IF cached[s] = <<>> THEN Undefined ELSE cached[s][1].index
  IN  IF top.error # "none" \/ index = Undefined \/ top.out = <<>> THEN <<>>
      ELSE <<top.out[1].key>>

\* SQLiteStore.firstKey and lastKey: the index is read from this.schema after
\* first or last has run
SqlKeyOutcome(top) ==
  IF top.error # "none" \/ top.out = <<>> THEN <<>> ELSE <<top.out[1].key>>

KeyOutcome(s, top) ==
  IF backend = "csv" THEN CsvKeyOutcome(s, top) ELSE SqlKeyOutcome(top)

\* get(key) of instance s
GetOutcome(s, key) ==
  LET es == ensureSchema(s)
  IN  [es |-> es, error |-> es.error,
       out |-> IF es.error # "none" THEN <<>>
               ELSE IF backend = "csv" THEN CsvGet(files, key) ELSE SqlGet(records, key)]

(***************************************************************************)
(* put as one operation, for calls made one after the other.               *)
(***************************************************************************)
\* a value of kind Number in the value field (its text stands for it)
NumberVal == "7"

\* the values of the value field of the entries of these calls
AnyVals == {"x", NumberVal}

AnyBatches == UNION {[1..n -> Keys(kind) \X AnyVals] : n \in 0..MaxBatch}

\* what validate sees of an entry
ShapeOf(entry) ==
  [index |-> [isArray |-> FALSE, elems |-> <<entry.key.kind>>],
   value |-> [isArray |-> FALSE,
              elems |-> <<IF entry.val = NumberVal THEN "Number" ELSE "String">>]]

\* entries.forEach(entry => validate(map, entry)) that stops at nothing
validateAllNothing(map, entries) == "none"

\* entries.forEach(entry => validate(map, entry)): the first error, or none
validateAll(map, entries) ==
  LET bad == {i \in 1..Len(entries) : validate(map, ShapeOf(entries[i])) # "ok"}
  IN  IF bad = {} THEN "none"
      ELSE validate(map, ShapeOf(entries[CHOOSE i \in bad : \A j \in bad : i <= j]))

\* the writer of partition p on the files fs: the contents the file can have
\* after it
WriterResults(fs, p, batch) ==
  UNION {LET exists == p \in DOMAIN fs
             first == IF exists THEN getFirst(fs[p]) ELSE <<>>
             last == IF exists THEN getLast(fs[p]) ELSE <<>>
         IN  IF WriteMode(first, last, sorted) = "append"
             THEN {StorageAppend(fs, p, csv(sorted, FALSE))[p]}
             ELSE {StorageWrite(fs, p, csv(mixed, TRUE))[p] :
                     mixed \in mixPartitionWith(sorted,
                                 IF exists THEN existingEntries(fs[p]) ELSE <<>>)}
         : sorted \in SortResults(batch)}

\* a put that writes the file of one partition, header and entries, whatever
\* the number of entries
CsvPutResultsOneFile(fs, entries) ==
  {StorageWrite(fs, SingleGetPartition, csv(entries, TRUE))}

\* CSVStore.put after validation: the files the call can leave
CsvPutResults(fs, entries) ==
  UNION {LET parts == {getPartition(sorted[i].key) : i \in 1..Len(sorted)}
             results == [p \in parts |-> WriterResults(fs, p, SelectPartition(sorted, p))]
         IN  {[q \in DOMAIN fs \cup parts |-> IF q \in parts THEN choice[q] ELSE fs[q]] :
                choice \in {c \in [parts -> UNION {results[p] : p \in parts}] :
                              \A p \in parts : c[p] \in results[p]}}
         : sorted \in SortResults(entries)}

RECURSIVE InsertChunks(_, _)
\* for (const subset of subsets) await db.run(INSERT ...)
InsertChunks(table, subsets) ==
  IF subsets = <<>> THEN table
  ELSE InsertChunks(
         InsertOrIgnore(table, [i \in 1..Len(Head(subsets)) |-> sqlHydrateEntry(Head(subsets)[i])]),
         Tail(subsets))

\* the call returns without a look at the schema
Untouched(s) == [error |-> "none", schema |-> cached[s], persisted |-> persisted]

\* put of instance s up to the end of validation: the relational store
\* returns at once when there is no entry
PutOutcome(s, entries) ==
  IF backend = "sqlite" /\ Len(entries) = 0
  THEN [es |-> Untouched(s), error |-> "none"]
  ELSE LET es == ensureSchema(s)
       IN  [es |-> es,
            error |-> IF es.error # "none" THEN es.error
                      ELSE validateAll(es.schema[1].map, entries)]

(***************************************************************************)
(* The operations of an instance called one after the other, each as one   *)
(* step.                                                                   *)
(***************************************************************************)
Operation(op, s, o, out, key, arg, batch) ==
  [op |-> op, store |-> s, error |-> o.error, out |-> out, key |-> key, arg |-> arg,
   batch |-> batch,
   calls |-> IF "calls" \in DOMAIN o THEN o.calls ELSE {},
   pre |-> [cached |-> cached[s], persisted |-> persisted, files |-> files,
            records |-> records]]

\* the effect of ensureSchema on the instance and on the backing
SchemaEffect(s, es) ==
  /\ cached' = IF es.error = "none" THEN [cached EXCEPT ![s] = es.schema] ELSE cached
  /\ persisted' = es.persisted

ReadFrame == UNCHANGED <<backend, kind, files, calls, ncalls, putKeys, lastPut, lastEmit,
                         records, sqlQueue, tasks, template, pure, keyRange, db>>

\* store.fields
OpFields(s) ==
  LET es == ensureSchema(s)
  IN  /\ SchemaEffect(s, es)
      /\ lastOp' = <<Operation("fields", s, [error |-> es.error], <<>>, <<>>, <<>>, <<>>)>>
      /\ ReadFrame

\* store.first and store.last
OpTop(s, order) ==
  LET o == TopOutcome(s, order)
  IN  /\ SchemaEffect(s, o.es)
      /\ lastOp' = <<Operation(IF order = "ASC" THEN "first" ELSE "last", s, o, o.out,
                               <<>>, <<>>, <<>>)>>
      /\ ReadFrame

\* store.firstKey and store.lastKey
OpTopKey(s, order) ==
  LET o == TopOutcome(s, order)
  IN  /\ SchemaEffect(s, o.es)
      /\ lastOp' = <<Operation(IF order = "ASC" THEN "firstKey" ELSE "lastKey", s, o, o.out,
                               KeyOutcome(s, o), <<>>, <<>>)>>
      /\ ReadFrame

\* store.get(key)
OpGet(s, key) ==
  LET o == GetOutcome(s, key)
  IN  /\ SchemaEffect(s, o.es)
      /\ lastOp' = <<Operation("get", s, o, o.out, <<>>, <<key>>, <<>>)>>
      /\ ReadFrame

\* store.put(...entries), from the call to its return
OpPut(s, b) ==
  LET entries == MakeEntries(b)
      o == PutOutcome(s, entries)
  IN  /\ ncalls < MaxCalls
      /\ ncalls' = ncalls + 1
      /\ SchemaEffect(s, o.es)
      /\ lastOp' = <<Operation("put", s, o, <<>>, <<>>, <<>>, entries)>>
      /\ IF o.error # "none" THEN UNCHANGED <<files, records, putKeys>>
         ELSE /\ putKeys' = putKeys \cup {b[i][1] : i \in 1..Len(b)}
              /\ IF backend = "csv"
                 THEN files' \in CsvPutResults(files, entries) /\ UNCHANGED records
                 ELSE /\ records' = InsertChunks(records, chunk(entries, ChunkSize))
                      /\ UNCHANGED files
      /\ UNCHANGED <<backend, kind, calls, lastPut, lastEmit, sqlQueue, tasks, template, pure,
                     keyRange, db>>

Templates == {<<>>, <<EntrySchema>>, <<NullableValueSchema>>}

\* nothing is stored and no call is in flight
InitEmpty ==
  /\ files = <<>> /\ calls = <<>> /\ ncalls = 0 /\ putKeys = {}
  /\ lastPut = <<>> /\ lastEmit = <<>>
  /\ records = <<>> /\ sqlQueue = [s \in Stores |-> <<>>] /\ tasks = <<>>
  /\ cached = [s \in Stores |-> <<>>]
  /\ lastOp = <<>>
  /\ pure = <<>>

\* the instances are constructed with or without a prototype, on a backing
\* that holds nothing or, for the relational store, on a database of an
\* earlier release that holds its schema and no record
InitSchema ==
  /\ backend \in Backends
  /\ kind \in Kinds
  /\ keyRange = "narrow"
  /\ db = NoDatabase
  /\ InitEmpty
  /\ template \in [Stores -> Templates]
  /\ persisted \in IF backend = "sqlite" THEN {<<>>, <<LegacyEncoded(EntrySchema)>>}
                   ELSE {<<>>}

\* the calls of this specification carry at most one entry
ShortAnyBatches == {b \in AnyBatches : Len(b) <= 1}

Reads(s) ==
  \/ OpFields(s)
  \/ \E order \in {"ASC", "DESC"} : OpTop(s, order)
  \/ \E order \in {"ASC", "DESC"} : OpTopKey(s, order)
  \/ \E key \in Keys(kind) : OpGet(s, key)

NextSchema ==
  \/ \E s \in Stores : Reads(s)
  \/ \E s \in Stores, b \in ShortAnyBatches : OpPut(s, b)

SpecSchema == InitSchema /\ [][NextSchema]_vars

\* every instance is constructed with the Entry prototype on a backing that
\* holds nothing
InitReads ==
  /\ backend \in Backends
  /\ kind \in Kinds
  /\ keyRange = "wide"
  /\ db = NoDatabase
  /\ InitEmpty
  /\ template = [s \in Stores |-> Some(EntrySchema)]
  /\ persisted = <<>>

NextReads ==
  \/ \E s \in Stores : Reads(s)
  \/ \E s \in Stores, b \in AnyBatches : OpPut(s, b)

SpecReads == InitReads /\ [][NextReads]_vars

\* every instance is constructed with the Entry prototype on a backing that
\* holds nothing
InitPut ==
  /\ backend \in Backends
  /\ kind \in Kinds
  /\ keyRange = "narrow"
  /\ db = NoDatabase
  /\ InitEmpty
  /\ template = [s \in Stores |-> Some(EntrySchema)]
  /\ persisted = <<>>

\* the argument lists that name every key at most once
DistinctKeyBatches ==
  {b \in AnyBatches : \A i, j \in 1..Len(b) : i # j => b[i][1] # b[j][1]}

\* puts of entries that pass and that fail validation, and get
NextPut ==
  \/ \E s \in Stores, b \in DistinctKeyBatches : OpPut(s, b)
  \/ \E s \in Stores, key \in Keys(kind) : OpGet(s, key)

SpecPut == InitPut /\ [][NextPut]_vars

(***************************************************************************)
(* C11  MissingSchema: on an instance constructed without a prototype over *)
(* a backing that holds no schema, every operation (fields, first, last,   *)
(* firstKey, lastKey, get, and put with any argument list) fails with      *)
(* MissingSchema and leaves the backing without a schema and without data. *)
(***************************************************************************)
C11_MissingSchema ==
  (lastOp # <<>> /\ template[lastOp[1].store] = <<>> /\ lastOp[1].pre.persisted = <<>>)
    => /\ lastOp[1].error = "MissingSchema"
       /\ persisted = <<>>
       /\ files = <<>>
       /\ records = <<>>

\* the schema getSchema reads from a persisted schema
Stored(p) ==
  IF backend = "csv" THEN decodeSchema(p[1]) ELSE decodeSchema(compatiable(p[1]))

(***************************************************************************)
(* C12  SchemaMismatched: when an instance has a prototype and the backing *)
(* holds a schema that is not equal to the schema of the prototype, every  *)
(* operation fails with SchemaMismatched, the persisted schema and the     *)
(* stored data are left unchanged, and no schema is cached.                *)
(***************************************************************************)
C12_SchemaMismatched ==
  (/\ lastOp # <<>>
   /\ template[lastOp[1].store] # <<>>
   /\ lastOp[1].pre.persisted # <<>>
   /\ Stored(lastOp[1].pre.persisted) # template[lastOp[1].store][1])
    => /\ lastOp[1].error = "SchemaMismatched"
       /\ persisted = lastOp[1].pre.persisted
       /\ files = lastOp[1].pre.files
       /\ records = lastOp[1].pre.records
       /\ cached[lastOp[1].store] = <<>>

(***************************************************************************)
(* C13  Schema persistence equality: a successful operation of any kind on *)
(* an instance with a prototype over a backing without a schema persists   *)
(* the schema of the prototype; and whenever an instance holds a cached    *)
(* schema, the backing holds a schema that reads back as the same value.   *)
(***************************************************************************)
C13_SchemaPersistence ==
  /\ (/\ lastOp # <<>>
      /\ template[lastOp[1].store] # <<>>
      /\ lastOp[1].pre.persisted = <<>>
      /\ lastOp[1].error = "none")
       => persisted = <<encodeSchema(template[lastOp[1].store][1])>>
  /\ \A s \in Stores :
       cached[s] # <<>> => (persisted # <<>> /\ Stored(persisted) = cached[s][1])

(***************************************************************************)
(* C14  Schema immutability: once an instance has resolved its schema it   *)
(* keeps that schema in every later step, and no step of any instance      *)
(* changes a persisted schema once the backing holds one.                  *)
(***************************************************************************)
C14_SchemaImmutable ==
  [][/\ \A s \in Stores : cached[s] # <<>> => cached'[s] = cached[s]
     /\ persisted # <<>> => persisted' = persisted]_vars

(***************************************************************************)
(* C15  Empty-store answers: on a store whose schema resolves and that     *)
(* holds no entry, first, last, firstKey and lastKey return none and       *)
(* get(k) returns none for every key k, on the relational store and on the *)
(* CSV store with each partitioner.                                        *)
(***************************************************************************)
C15_EmptyStoreAnswers ==
  (/\ lastOp # <<>>
   /\ lastOp[1].op \in {"first", "last", "firstKey", "lastKey", "get"}
   /\ lastOp[1].pre.files = <<>>
   /\ lastOp[1].pre.records = <<>>
   /\ lastOp[1].error \notin {"MissingSchema", "SchemaMismatched"})
    => /\ lastOp[1].error = "none"
       /\ lastOp[1].out = <<>>
       /\ lastOp[1].key = <<>>

(***************************************************************************)
(* C16  first and last are the extremes of the whole store: after any      *)
(* sequence of puts made one after the other, first returns the stored     *)
(* entry with the smallest index and last the stored entry with the        *)
(* largest index, on the relational store and on the CSV store with        *)
(* YearMonthPartitioner over Date keys or FixedSizePartitioner over Number *)
(* keys; the index returned is the index that was put.                     *)
(***************************************************************************)
C16_Extremes ==
  (/\ lastOp # <<>>
   /\ lastOp[1].op \in {"first", "last"}
   /\ putKeys # {}
   /\ (backend = "sqlite" \/ kind \in {"Number", "Date"}))
    => /\ lastOp[1].error = "none"
       /\ lastOp[1].out # <<>>
       /\ lastOp[1].out[1].key \in putKeys
       /\ \A k \in putKeys :
            IF lastOp[1].op = "first" THEN ~KeyGt(lastOp[1].out[1].key, k)
            ELSE ~KeyGt(k, lastOp[1].out[1].key)

(***************************************************************************)
(* C17  firstKey and lastKey project the index field: whenever the schema  *)
(* resolves, firstKey is the index field of the entry first returns and    *)
(* lastKey the index field of the entry last returns (none when there is   *)
(* no entry), whatever the instance did before.                            *)
(***************************************************************************)
C17_KeysProjectIndex ==
  (/\ lastOp # <<>>
   /\ lastOp[1].op \in {"firstKey", "lastKey"}
   /\ lastOp[1].error = "none")
    => lastOp[1].key = (IF lastOp[1].out = <<>> THEN <<>> ELSE <<lastOp[1].out[1].key>>)

(***************************************************************************)
(* C18  Validation is all-or-nothing for a put: when the schema resolves   *)
(* and any entry passed to put does not conform to it, the call fails with *)
(* Validation and stores no entry of the call, not even a valid one: no    *)
(* partition file is created or modified and no record is inserted.        *)
(***************************************************************************)
C18_ValidationAllOrNothing ==
  (/\ lastOp # <<>>
   /\ lastOp[1].op = "put"
   /\ cached[lastOp[1].store] # <<>>
   /\ \E i \in 1..Len(lastOp[1].batch) :
        ~Conforms(cached[lastOp[1].store][1].map, ShapeOf(lastOp[1].batch[i])))
    => /\ lastOp[1].error = "Validation"
       /\ files = lastOp[1].pre.files
       /\ records = lastOp[1].pre.records

\* a put of a valid entry followed by an invalid one, and of an invalid one
\* followed by a valid one, on a store that holds entries, has failed
C18_Witness ==
  /\ lastOp # <<>>
  /\ lastOp[1].op = "put"
  /\ Len(lastOp[1].batch) = 2
  /\ \E i, j \in 1..2 :
       /\ ~Conforms(cached[lastOp[1].store][1].map, ShapeOf(lastOp[1].batch[i]))
       /\ Conforms(cached[lastOp[1].store][1].map, ShapeOf(lastOp[1].batch[j]))
  /\ lastOp[1].error = "Validation"
  /\ putKeys # {}
  /\ files = lastOp[1].pre.files
  /\ records = lastOp[1].pre.records

(***************************************************************************)
(* The round trip of a value through hydrate and dehydrate of a backend,   *)
(* which is what put writes of a field and what get reads of it.           *)
(***************************************************************************)
\* the scalar values of a kind
ScalarsOf(k) ==
  IF k = "Boolean" THEN {[kind |-> k, v |-> b] : b \in BOOLEAN}
  ELSE IF k = "Number" THEN {[kind |-> k, v |-> n] : n \in (0 - MaxKey)..MaxKey}
  ELSE IF k = "Date"
  THEN {[kind |-> k, v |-> t] : t \in {0 - 1, 0} \cup {MILLISECONDS + i : i \in 0..MaxKey}}
  ELSE IF k = "Embedded"
  THEN {[kind |-> k, v |-> [string |-> NumberToString(i)]] : i \in 0..MaxKey}
  ELSE {[kind |-> k, v |-> NumberToString(i)] : i \in 0..MaxKey}

NullValue == [isArray |-> FALSE, elems |-> <<[kind |-> "Null", v |-> "null"]>>]

\* the metadata of a field: every kind, list or not, nullable or not; the
\* lists of embedded objects are left out
ValueMetas ==
  {meta \in [type : GenericTypeNames, isList : BOOLEAN, isNullable : BOOLEAN] :
     ~(meta.type = "Embedded" /\ meta.isList)}

\* the values a field of this metadata can carry
ValuesOf(meta) ==
  (IF meta.isList
   THEN {[isArray |-> TRUE, elems |-> e] :
           e \in UNION {[1..n -> ScalarsOf(meta.type)] : n \in 0..(MaxList + 1)}}
   ELSE {[isArray |-> FALSE, elems |-> <<x>>] : x \in ScalarsOf(meta.type)})
  \cup (IF meta.isNullable THEN {NullValue} ELSE {})

\* what validate sees of the entry that carries the value in its value field
ShapeOfValue(value) ==
  [value |-> [isArray |-> value.isArray,
              elems |-> [i \in 1..Len(value.elems) |->
                           IF value.elems[i].kind = "Null" THEN "Nullable"
                           ELSE value.elems[i].kind]]]

InitRoundTrip ==
  /\ backend \in Backends
  /\ kind = "Number"
  /\ keyRange = "narrow"
  /\ db = NoDatabase
  /\ files = <<>> /\ calls = <<>> /\ ncalls = 0 /\ putKeys = {}
  /\ lastPut = <<>> /\ lastEmit = <<>>
  /\ records = <<>> /\ sqlQueue = [s \in Stores |-> <<>>] /\ tasks = <<>>
  /\ template = [s \in Stores |-> NoSchema]
  /\ cached = [s \in Stores |-> NoSchema]
  /\ persisted = NoSchema
  /\ lastOp = <<>>
  /\ \E meta \in ValueMetas : \E value \in ValuesOf(meta) :
       pure = [stage |-> "value", meta |-> meta, value |-> value, valid |-> "none",
               stored |-> <<>>, back |-> <<>>]

\* put: validate(map, entry), then mapValues(entry, hydrate)
Hydrate ==
  /\ pure.stage = "value"
  /\ pure' = [pure EXCEPT
                !.stage = "stored",
                !.valid = validate([value |-> [pure.meta EXCEPT !.type = TypeIdentifier(@)]],
                                   ShapeOfValue(pure.value)),
                !.stored = IF backend = "csv" THEN hydrate(pure.value)
                           ELSE sqlHydrate(pure.value)]
  /\ UNCHANGED <<storeVars, template, cached, persisted, lastOp, keyRange, db>>

\* get: mapValues(native, (value, key) => dehydrate(map[key], value))
Dehydrate ==
  /\ pure.stage = "stored"
  /\ pure' = [pure EXCEPT
                !.stage = "read",
                !.back = IF backend = "csv" THEN dehydrate(pure.meta, pure.stored)
                         ELSE sqlDehydrate(pure.meta, pure.stored)]
  /\ UNCHANGED <<storeVars, template, cached, persisted, lastOp, keyRange, db>>

NextRoundTrip == Hydrate \/ Dehydrate

SpecRoundTrip == InitRoundTrip /\ [][NextRoundTrip]_vars

(***************************************************************************)
(* C21  Value round-trip: for both backend encodings and every (meta, v)   *)
(* where v is a value of the kind of meta, or a list of such values when   *)
(* meta is a list, dehydrate(meta, hydrate(v)) = v.                        *)
(***************************************************************************)
C21_ValueRoundTrip ==
  (pure.stage = "read" /\ pure.value # NullValue) => pure.back = pure.value

(***************************************************************************)
(* C22  Null in a nullable field survives storage: on both stores a null   *)
(* in a field whose metadata is nullable passes validation, and what is    *)
(* read back of the field after it was stored is null.                     *)
(***************************************************************************)
C22_NullSurvives ==
  (pure.stage = "read" /\ pure.meta.isNullable /\ pure.value = NullValue)
    => /\ pure.valid = "ok"
       /\ ~pure.back.isArray
       /\ pure.back.elems[1].kind = "Null"

(***************************************************************************)
(* Faults of the storage adapter during put on the CSV store: the calls    *)
(* are made one after the other, and any adapter call a writer awaits can  *)
(* fail.                                                                   *)
(***************************************************************************)
\* the stores whose partitioner makes more than one partition
InitFault == backend = "csv" /\ InitCommon /\ kind \in {"Number", "Date"}

\* the argument lists that name every key at most once
FaultBatches == {b \in Batches : \A i, j \in 1..Len(b) : i # j => b[i][1] # b[j][1]}

NextFault ==
  \/ \E b \in FaultBatches : NoCallInFlight /\ CsvPut(ncalls + 1, b)
  \/ \E c \in 1..MaxCalls, p \in Partitions : WriterStep(c, p)
  \/ \E c \in 1..MaxCalls, p \in Partitions : WriterFault(c, p)
  \/ \E c \in 1..MaxCalls : CsvPutReturn(c)

SpecFault == InitFault /\ [][NextFault]_vars

\* the writer of some partition of the call that returned met a fault
Faulted(put) == \E p \in DOMAIN put.faults : put.faults[p] # "none"

(***************************************************************************)
(* C23  A storage fault is surfaced by put on the CSV store: when an       *)
(* adapter call made by a partition's writer (exists, head, tail, read,    *)
(* append or write) fails during a put, the put call fails with the fault  *)
(* and does not complete successfully.                                     *)
(***************************************************************************)
C23_FaultSurfaced ==
  (backend = "csv" /\ lastPut # <<>> /\ Faulted(lastPut[1])) => lastPut[1].error # "none"

(***************************************************************************)
(* C24  put is not atomic across partitions and failures are isolated:     *)
(* when a put that spans several partitions returns, every partition whose *)
(* writer met no fault holds the content a successful put would have given *)
(* it, whatever happened to the writers of the other partitions: a failure *)
(* neither stops the other writers nor reverts what they wrote.            *)
(***************************************************************************)
C24_FailuresIsolated ==
  (backend = "csv" /\ lastPut # <<>>) =>
    \A p \in DOMAIN lastPut[1].faults :
      lastPut[1].faults[p] = "none" =>
        /\ p \in DOMAIN files
        /\ files[p] \in WriterResults(lastPut[1].pre, p, SelectPartition(lastPut[1].entries, p))

\* a put over two partitions returned: the writer of one met a fault, the
\* writer of the other changed its partition
C24_Witness ==
  /\ backend = "csv"
  /\ lastPut # <<>>
  /\ Faulted(lastPut[1])
  /\ \E p \in DOMAIN lastPut[1].faults :
       /\ lastPut[1].faults[p] = "none"
       /\ p \in DOMAIN files
       /\ (p \in DOMAIN lastPut[1].pre => files[p] # lastPut[1].pre[p])

(***************************************************************************)
(* C25  A CSV put resolves only after every partition writer it started    *)
(* has finished: at the moment put returns, the append or write of every   *)
(* partition touched by the call has completed, so that every partition    *)
(* touched holds the rows of the entries of the call.                      *)
(***************************************************************************)
C25_ResolvesAfterWriters ==
  (backend = "csv" /\ lastPut # <<>> /\ lastPut[1].error = "none") =>
    /\ \A p \in DOMAIN lastPut[1].pcs : lastPut[1].pcs[p] = "done"
    /\ \A i \in 1..Len(lastPut[1].entries) :
         LET e == lastPut[1].entries[i]
             p == getPartition(e.key)
         IN  /\ p \in DOMAIN files
             /\ \E j \in 1..Len(DataRows(files[p])) : DataRows(files[p])[j] = hydrateEntry(e)

(***************************************************************************)
(* The INSERT statements of a put on the relational store, for entries     *)
(* named by their place in the call and schemas of 1 to MAX_INPUT fields.  *)
(***************************************************************************)
MaxEntries == 5

InitChunk ==
  /\ InitIdle
  /\ \E n \in 0..MaxEntries, f \in 1..MAX_INPUT :
       pure = [stage |-> "entries", entries |-> [i \in 1..n |-> i], fields |-> f,
               statements |-> <<>>]

\* the loop over the subsets: one db.run per subset, which binds
\* fields.length parameters for each entry of the subset
PutStatements ==
  /\ pure.stage = "entries"
  /\ LET subsets == chunk(pure.entries, SubsetSize(pure.fields))
     IN  pure' = [pure EXCEPT
                    !.stage = "inserted",
                    !.statements = [i \in 1..Len(subsets) |->
                                      [entries |-> subsets[i],
                                       parameters |-> Len(subsets[i]) * pure.fields]]]
  /\ UNCHANGED <<storeVars, template, cached, persisted, lastOp, keyRange, db>>

SpecChunk == InitChunk /\ [][PutStatements]_vars

RECURSIVE Flatten(_)
Flatten(statements) ==
  IF statements = <<>> THEN <<>>
  ELSE Head(statements).entries \o Flatten(Tail(statements))

(***************************************************************************)
(* C26  Relational chunking: a put of n entries against a schema with f    *)
(* fields issues ceil(n / floor(999 / f)) INSERT statements, each          *)
(* statement binds at most 999 parameters, and every entry of the call     *)
(* appears in exactly one statement, in call order.                        *)
(***************************************************************************)
C26_Chunking ==
  pure.stage = "inserted" =>
    LET n == Len(pure.entries)
        size == 999 \div pure.fields
    IN  /\ Len(pure.statements) = (n + size - 1) \div size
        /\ \A i \in 1..Len(pure.statements) : pure.statements[i].parameters <= 999
        /\ Flatten(pure.statements) = pure.entries

\* a call whose entries do not fit one statement
C26_Witness ==
  /\ pure.stage = "inserted"
  /\ Len(pure.statements) > 1
  /\ \E i \in 1..Len(pure.statements) : Len(pure.statements[i].entries) > 1
  /\ Len(pure.statements[Len(pure.statements)].entries) < Len(pure.statements[1].entries)

(***************************************************************************)
(* The operations of the relational store at the level of the statements   *)
(* of exec: open, the statements of initialise, the statement of the       *)
(* operation, close.  The operations are called at any time, a statement   *)
(* can fail, and each statement is committed on its own.                   *)
(***************************************************************************)
ExecOps == {"fields", "first", "last", "get", "put", "put()"}

\* the number of operations that are in flight at a time
MaxInFlight == 2

execFrame == <<backend, kind, files, calls, putKeys, lastPut, lastEmit, records, template,
               persisted, pure, keyRange>>

InitExec ==
  /\ backend = "sqlite"
  /\ kind = "Number"
  /\ keyRange = "narrow"
  /\ db = NoDatabase
  /\ InitEmpty
  /\ template \in [Stores -> {<<>>, <<EntrySchema>>}]
  /\ persisted = <<>>

\* an operation is called on instance s: put pushes its task on the queue of
\* the instance and returns at once when it has no entry, every other
\* operation calls exec
ExecCall(t, s, op) ==
  /\ ncalls < MaxCalls
  /\ Cardinality(DOMAIN tasks) < MaxInFlight
  /\ t = ncalls + 1
  /\ ncalls' = ncalls + 1
  /\ LET task == [id |-> t, op |-> op, store |-> s, error |-> "none", opens |-> 0,
                   closes |-> 0, a |-> "none", b |-> "none",
                   pc |-> IF op = "put()" THEN "settled"
                          ELSE IF op = "put" THEN "queued" ELSE "open"]
     IN  IF op = "put()"
         THEN lastOp' = <<task>> /\ UNCHANGED tasks
         ELSE /\ lastOp' = <<>>
              /\ tasks' = [x \in DOMAIN tasks \cup {t} |-> IF x = t THEN task ELSE tasks[x]]
  /\ sqlQueue' = IF op = "put" THEN [sqlQueue EXCEPT ![s] = Append(@, t)] ELSE sqlQueue
  /\ UNCHANGED <<execFrame, cached, db>>

\* the queue of the instance runs its next task when its worker is free
ExecDequeue(s) ==
  /\ sqlQueue[s] # <<>>
  /\ Cardinality({t \in DOMAIN tasks : /\ tasks[t].store = s /\ tasks[t].op = "put"
                                        /\ tasks[t].pc # "queued"})
       < QueueConcurrency
  /\ tasks' = [tasks EXCEPT ![Head(sqlQueue[s])].pc = "open"]
  /\ sqlQueue' = [sqlQueue EXCEPT ![s] = Tail(@)]
  /\ lastOp' = <<>>
  /\ UNCHANGED <<execFrame, ncalls, cached, db>>

\* db = await open(...): the handle is open, or open rejects and db stays
\* undefined
ExecOpen(t) ==
  /\ t \in DOMAIN tasks /\ tasks[t].pc = "open"
  /\ \/ /\ db' = [db EXCEPT !.handles = @ \cup {t}]
        /\ tasks' = [tasks EXCEPT ![t].opens = @ + 1, ![t].pc = "ensure"]
     \/ /\ db.faulty
        /\ tasks' = [tasks EXCEPT ![t].opens = @ + 1, ![t].pc = "close", ![t].error = "fault"]
        /\ UNCHANGED db
  /\ lastOp' = <<>>
  /\ UNCHANGED <<execFrame, ncalls, sqlQueue, cached>>

\* the error of an operation: "fault" when a call it made on the database
\* failed for a reason that is not in the database (the call could have
\* succeeded), else the error of the statement that the database as it is
\* refuses, or MissingSchema
Blame(task, error) == IF task.error = "fault" THEN "fault" ELSE error

\* ensureSchema(db): the cached schema, or initialise: getSchema reads the
\* schema table and gives undefined when the table is missing, when it has
\* no row and when the statement fails; without a stored schema and with a
\* prototype the statements CREATE TABLE schema and CREATE TABLE records are
\* issued
ExecEnsureSchema(t) ==
  /\ t \in DOMAIN tasks /\ tasks[t].pc = "ensure"
  /\ LET s == tasks[t].store
     IN  IF cached[s] # <<>>
         THEN /\ tasks' = [tasks EXCEPT ![t].pc = "query"]
              /\ UNCHANGED cached
         ELSE \E stored \in {db.schema = "row"} \cup (IF db.faulty THEN {FALSE} ELSE {}) :
                IF ~stored /\ template[s] # <<>>
                THEN /\ tasks' = [tasks EXCEPT ![t].pc = "init", ![t].a = "create",
                                               ![t].b = "create",
                                               ![t].error = IF db.schema = "row" THEN "fault"
                                                            ELSE "none"]
                     /\ UNCHANGED cached
                ELSE IF ~stored
                THEN /\ tasks' = [tasks EXCEPT ![t].pc = "close",
                                               ![t].error = IF db.schema = "row" THEN "fault"
                                                            ELSE "MissingSchema"]
                     /\ UNCHANGED cached
                ELSE /\ tasks' = [tasks EXCEPT ![t].pc = "query"]
                     /\ cached' = [cached EXCEPT ![s] = <<EntrySchema>>]
  /\ lastOp' = <<>>
  /\ UNCHANGED <<execFrame, ncalls, sqlQueue, db>>

\* the task after a statement of initialise ended: Promise.all rejects with
\* the first statement that fails and exec goes to its finally; it resolves
\* when both tables are created, and the schema is cached
AfterStatement(t, task) ==
  IF task.pc = "init" /\ (task.a \in {"failed", "refused"} \/ task.b \in {"failed", "refused"})
  THEN /\ tasks' = [tasks EXCEPT ![t] =
                      [task EXCEPT !.pc = "close",
                                   !.error = Blame(task, IF "refused" \in {task.a, task.b}
                                                         THEN "SqliteError" ELSE "fault")]]
       /\ UNCHANGED cached
  ELSE IF task.pc = "init" /\ task.a = "done" /\ task.b = "done"
  THEN /\ tasks' = [tasks EXCEPT ![t] = [task EXCEPT !.pc = "query"]]
       /\ cached' = [cached EXCEPT ![task.store] = template[task.store]]
  ELSE /\ tasks' = [tasks EXCEPT ![t] = task]
       /\ UNCHANGED cached

\* createSchemaTable: CREATE TABLE schema (...) ends; the INSERT is issued
\* next unless the handle is being closed.  A statement "failed" when it
\* could have succeeded and is "refused" when the table exists already
ExecCreateSchemaTable(t) ==
  /\ t \in DOMAIN tasks /\ tasks[t].a = "create"
  /\ \/ /\ db.schema = "absent"
        /\ db' = [db EXCEPT !.schema = "empty"]
        /\ AfterStatement(t, [tasks[t] EXCEPT
                                !.a = IF tasks[t].pc = "init" THEN "insert" ELSE "failed"])
     \/ /\ db.faulty \/ db.schema # "absent"
        /\ UNCHANGED db
        /\ AfterStatement(t, [tasks[t] EXCEPT
                                !.a = IF db.schema = "absent" THEN "failed" ELSE "refused"])
  /\ lastOp' = <<>>
  /\ UNCHANGED <<execFrame, ncalls, sqlQueue>>

\* createSchemaTable: INSERT INTO schema ... ends
ExecInsertSchema(t) ==
  /\ t \in DOMAIN tasks /\ tasks[t].a = "insert"
  /\ \/ /\ db.schema # "absent"
        /\ db' = [db EXCEPT !.schema = "row"]
        /\ AfterStatement(t, [tasks[t] EXCEPT !.a = "done"])
     \/ /\ db.faulty
        /\ UNCHANGED db
        /\ AfterStatement(t, [tasks[t] EXCEPT !.a = "failed"])
  /\ lastOp' = <<>>
  /\ UNCHANGED <<execFrame, ncalls, sqlQueue>>

\* createRecordTable: CREATE TABLE records (...) ends
ExecCreateRecordTable(t) ==
  /\ t \in DOMAIN tasks /\ tasks[t].b = "create"
  /\ \/ /\ ~db.records
        /\ db' = [db EXCEPT !.records = TRUE]
        /\ AfterStatement(t, [tasks[t] EXCEPT !.b = "done"])
     \/ /\ db.faulty \/ db.records
        /\ UNCHANGED db
        /\ AfterStatement(t, [tasks[t] EXCEPT
                                !.b = IF db.records THEN "refused" ELSE "failed"])
  /\ lastOp' = <<>>
  /\ UNCHANGED <<execFrame, ncalls, sqlQueue>>

\* the rest of the callback: the validation of put and the statement on the
\* records table, which fails when the table is missing
ExecQuery(t) ==
  /\ t \in DOMAIN tasks /\ tasks[t].pc = "query"
  /\ \E ok \in {db.records} \cup (IF db.faulty THEN {FALSE} ELSE {}) :
       tasks' = [tasks EXCEPT ![t].pc = "close",
                              ![t].error = IF ok THEN "none"
                                           ELSE IF db.records THEN "fault" ELSE "SqliteError"]
  /\ lastOp' = <<>>
  /\ UNCHANGED <<execFrame, ncalls, sqlQueue, cached, db>>

\* a close at the end of the try block: the handles that stay open
closeOnSuccess(handles, t, error) == IF error = "none" THEN handles \ {t} ELSE handles

\* finally { await db?.close() }: the handles that stay open
close(handles, t, error) == handles \ {t}

\* the finally of exec: close waits for the statements that were issued on
\* the handle, then the operation settles
ExecClose(t) ==
  /\ t \in DOMAIN tasks /\ tasks[t].pc = "close"
  /\ tasks[t].a \notin {"create", "insert"} /\ tasks[t].b # "create"
  /\ db' = [db EXCEPT !.handles = close(@, t, tasks[t].error)]
  /\ tasks' = [x \in DOMAIN tasks \ {t} |-> tasks[x]]
  /\ lastOp' = <<[tasks[t] EXCEPT !.pc = "settled",
                                  !.closes = IF t \in db.handles THEN @ + 1 ELSE @]>>
  /\ UNCHANGED <<execFrame, ncalls, sqlQueue, cached>>

NextExec ==
  \/ \E s \in Stores, op \in ExecOps : ExecCall(ncalls + 1, s, op)
  \/ \E s \in Stores : ExecDequeue(s)
  \/ \E t \in 1..MaxCalls : ExecOpen(t)
  \/ \E t \in 1..MaxCalls : ExecEnsureSchema(t)
  \/ \E t \in 1..MaxCalls : ExecCreateSchemaTable(t)
  \/ \E t \in 1..MaxCalls : ExecInsertSchema(t)
  \/ \E t \in 1..MaxCalls : ExecCreateRecordTable(t)
  \/ \E t \in 1..MaxCalls : ExecQuery(t)
  \/ \E t \in 1..MaxCalls : ExecClose(t)

SpecExec == InitExec /\ [][NextExec]_vars

(***************************************************************************)
(* C27  Database handle lifecycle: every operation of the relational store *)
(* (fields, first, last, get, put) opens the database once, never twice,   *)
(* and closes the handle before the operation settles, when it succeeds    *)
(* and on every path on which it fails, so that no handle the store opened *)
(* is open when no operation is in flight.  A put without entries settles  *)
(* without a call of exec and opens no handle.                             *)
(***************************************************************************)
C27_HandleLifecycle ==
  backend = "sqlite" =>
    /\ \A t \in DOMAIN tasks : tasks[t].opens <= 1
    /\ lastOp # <<>> =>
         /\ lastOp[1].id \notin db.handles
         /\ lastOp[1].opens <= 1
         /\ lastOp[1].op # "put()" => lastOp[1].opens = 1
    /\ db.handles \subseteq DOMAIN tasks

\* an operation that failed after it opened the database has settled, its
\* handle closed, while another operation is in flight
C27_Witness ==
  /\ backend = "sqlite"
  /\ lastOp # <<>>
  /\ lastOp[1].error # "none"
  /\ lastOp[1].opens = 1 /\ lastOp[1].closes = 1
  /\ db.handles # {}

(***************************************************************************)
(* C28  Atomic first-time initialization of the relational store: after an *)
(* initialization with a template on an empty database, whether it         *)
(* succeeds or fails part-way, either both the schema table, with exactly  *)
(* one row, and the records table exist, or neither exists; no observer    *)
(* sees the schema table without its row or without the records table.     *)
(***************************************************************************)
C28_AtomicInitialization ==
  backend = "sqlite" =>
    \/ db.schema = "row" /\ db.records
    \/ db.schema = "absent" /\ ~db.records

(***************************************************************************)
(* C29  An empty put is a no-op on data: put called with no entries on a   *)
(* store whose schema resolves completes successfully, creates or modifies *)
(* no partition file (CSV) and inserts no record (relational).             *)
(***************************************************************************)
C29_EmptyPut ==
  (lastOp # <<>> /\ lastOp[1].op = "put" /\ lastOp[1].batch = <<>>) =>
    /\ lastOp[1].error = "none"
    /\ files = lastOp[1].pre.files
    /\ records = lastOp[1].pre.records

\* a put without entries returned on a store that holds entries
C29_Witness ==
  /\ lastOp # <<>>
  /\ lastOp[1].op = "put"
  /\ lastOp[1].batch = <<>>
  /\ lastOp[1].error = "none"
  /\ putKeys # {}
  /\ (files # <<>> \/ records # <<>>)

(***************************************************************************)
(* C30  CSV partition file layout: after any sequence of puts made one     *)
(* after the other, every partition file consists of exactly one header    *)
(* line naming the fields in schema order, as its first line, followed by  *)
(* at least one data row; an append never adds a second header and a       *)
(* rewrite never omits it.                                                 *)
(***************************************************************************)
C30_FileLayout ==
  backend = "csv" =>
    \A p \in DOMAIN files :
      /\ Len(files[p]) >= 2
      /\ files[p][1] = Header
      /\ \A i \in 2..Len(files[p]) : files[p][i] # Header

\* a partition file that was written, then appended to
C30_Witness ==
  /\ backend = "csv"
  /\ lastEmit # <<>>
  /\ lastEmit[1].mode = "append"
  /\ lastEmit[1].existed
  /\ Len(files[lastEmit[1].partition]) >= 3
  /\ \E p \in DOMAIN files : p # lastEmit[1].partition

(***************************************************************************)
(* The read operations between puts made one after the other on the CSV    *)
(* store, with keys on one side of zero or on both.                        *)
(***************************************************************************)
InitProbe ==
  /\ backend = "csv"
  /\ kind \in Kinds
  /\ keyRange \in IF kind \in {"Number", "Date"} THEN {"narrow", "wide"} ELSE {"narrow"}
  /\ db = NoDatabase
  /\ InitEmpty
  /\ template = [s \in Stores |-> Some(EntrySchema)]
  /\ persisted = <<>>

\* the calls of this specification carry entries of different keys and of
\* one value
ProbeBatches ==
  UNION {{b \in [1..n -> Keys(kind) \X {"x"}] : \A i, j \in 1..n : i # j => b[i][1] # b[j][1]} :
           n \in 0..MaxBatch}

NextProbe ==
  \/ \E s \in Stores, b \in ProbeBatches : OpPut(s, b)
  \/ \E s \in Stores, order \in {"ASC", "DESC"} : OpTop(s, order)
  \/ \E s \in Stores, order \in {"ASC", "DESC"} : OpTopKey(s, order)
  \/ \E s \in Stores, key \in Keys(kind) : OpGet(s, key)
  \/ \E s \in Stores : OpFields(s)

SpecProbe == InitProbe /\ [][NextProbe]_vars

\* no row of a partition file has an index before (after) every index of p
ExtremePartition(p, order) ==
  \A q \in DOMAIN files : \A j \in 1..Len(DataRows(files[q])) :
    \E i \in 1..Len(DataRows(files[p])) :
      IF order = "ASC" THEN ~CellGt(DataRows(files[p])[i].key, DataRows(files[q])[j].key)
      ELSE ~CellGt(DataRows(files[q])[j].key, DataRows(files[p])[i].key)

(***************************************************************************)
(* C31  first/last probing never reads a whole partition: first, last,     *)
(* firstKey and lastKey on the CSV store reach partition files only        *)
(* through head with at most 2 lines and tail with 1 line, on the first or *)
(* the last populated partition; they never call read, append or write on  *)
(* a partition file, and they leave every partition file as it was.        *)
(***************************************************************************)
C31_ProbesOnly ==
  (/\ backend = "csv"
   /\ lastOp # <<>>
   /\ lastOp[1].op \in {"first", "last", "firstKey", "lastKey"}) =>
    /\ files = lastOp[1].pre.files
    /\ \A c \in lastOp[1].calls :
         /\ \/ c.call = "head" /\ c.n <= 2
            \/ c.call = "tail" /\ c.n = 1
         /\ c.path \in DOMAIN files =>
              ExtremePartition(c.path,
                               IF lastOp[1].op \in {"first", "firstKey"} THEN "ASC" ELSE "DESC")

\* last answered from a partition that holds several rows, so that the
\* header and the last line are not the whole file
C31_Witness ==
  /\ backend = "csv"
  /\ lastOp # <<>>
  /\ lastOp[1].op \in {"last", "lastKey"}
  /\ lastOp[1].error = "none"
  /\ lastOp[1].out # <<>>
  /\ \E c \in lastOp[1].calls : c.call = "tail" /\ Len(files[c.path]) > 2

(***************************************************************************)
(* schema.ts: the decorators ENTRY and FIELD and getSchemaFromPrototype    *)
(* applied on their own.  A prototype is what the decorators were given:   *)
(* the key of ENTRY and, for every decorated property, the type (the name  *)
(* of a constructor of SupportedData, Entry for a class of embedded        *)
(* entries, Symbol for a constructor that is not supported), whether the   *)
(* type was given in an array, and nullable.                               *)
(***************************************************************************)
DeclaredTypes == {"Number", "String", "Boolean", "Entry", "Symbol"}

SupportedData == {"Boolean", "Number", "String", "Date", "URL"}

isGenericEntry(type) == type = "Entry"

\* ensureFieldCompliant: TRUE when it throws TypeUndeterminedError
ensureFieldCompliant(type) == ~(type \in SupportedData \/ isGenericEntry(type))

\* the index names a prototype may give: a declared field or another name
Prototypes ==
  UNION {[key : {FieldNames[i] : i \in 1..(n + 1)},
          fields : [{FieldNames[j] : j \in 1..n} ->
                      [type : DeclaredTypes, isList : BOOLEAN, isNullable : BOOLEAN]]] :
           n \in 1..MaxFields}

\* ENTRY stores the key and FIELD the type map of the class; FIELD throws for
\* a type that is not supported and neither of them looks at the other
Decorate(prototype) ==
  IF \E f \in DOMAIN prototype.fields : ensureFieldCompliant(prototype.fields[f].type)
  THEN [error |-> "TypeUndetermined", INDEX |-> Undefined, FIELDS |-> <<>>]
  ELSE [error |-> "none", INDEX |-> prototype.key, FIELDS |-> prototype.fields]

getSchemaFromPrototype(metadata) ==
  [index |-> metadata.INDEX,
   map |-> [f \in DOMAIN metadata.FIELDS |->
              [type |-> IF isGenericEntry(metadata.FIELDS[f].type)
                        THEN TypeIdentifier("Embedded")
                        ELSE TypeIdentifier(metadata.FIELDS[f].type),
               isList |-> metadata.FIELDS[f].isList,
               isNullable |-> metadata.FIELDS[f].isNullable]]]

InitTemplate ==
  /\ InitIdle
  /\ \E P \in Prototypes :
       pure = [stage |-> "prototype", prototype |-> P, error |-> "none", schema |-> <<>>,
               encoded |-> <<>>]

\* the class is declared and its schema derived
DeriveSchema ==
  /\ pure.stage = "prototype"
  /\ LET metadata == Decorate(pure.prototype)
     IN  pure' = IF metadata.error # "none"
                 THEN [pure EXCEPT !.stage = "rejected", !.error = metadata.error]
                 ELSE [pure EXCEPT !.stage = "derived",
                                   !.schema = <<getSchemaFromPrototype(metadata)>>]
  /\ UNCHANGED <<storeVars, template, cached, persisted, lastOp, keyRange, db>>

\* what initialise writes for the schema it was provided with
EncodeDerived ==
  /\ pure.stage = "derived"
  /\ pure' = [pure EXCEPT !.stage = "encoded", !.encoded = encodeSchema(pure.schema[1])]
  /\ UNCHANGED <<storeVars, template, cached, persisted, lastOp, keyRange, db>>

NextTemplate == DeriveSchema \/ EncodeDerived

SpecTemplate == InitTemplate /\ [][NextTemplate]_vars

IndexKinds == {TypeIdentifier(n) : n \in {"Number", "String", "Date", "URL"}}

(***************************************************************************)
(* C32  Index constraints of a template: every schema derived from a       *)
(* template has exactly one index field, which is one of the declared      *)
(* fields, of kind Number, String, Date or URL, and neither a list nor     *)
(* nullable; a template that marks the index nullable or a list, or names  *)
(* an index that is not declared, is rejected, so that no encoded token    *)
(* carries both the index mark and the nullable mark.                      *)
(***************************************************************************)
C32_IndexConstraints ==
  /\ pure.stage \in {"derived", "encoded"} =>
       LET schema == pure.schema[1]
       IN  /\ schema.index \in DOMAIN schema.map
           /\ schema.map[schema.index].type \in IndexKinds
           /\ ~schema.map[schema.index].isList
           /\ ~schema.map[schema.index].isNullable
  /\ pure.stage = "encoded" =>
       \A f \in DOMAIN pure.encoded :
         ~(MatchesIndex(pure.encoded[f]) /\ pure.encoded[f][Len(pure.encoded[f])] = "?")

(***************************************************************************)
(* storage/local.ts: head and tail of LocalStorage applied on their own to *)
(* the content of a file, a sequence of characters.  Positions are those   *)
(* of the code, counted from 0.                                            *)
(***************************************************************************)
MaxContent == 5

CHUNK == 2

NewLine == "\n"

Contents == UNION {[1..n -> {"a", NewLine}] : n \in 0..MaxContent}

Min(a, b) == IF a < b THEN a ELSE b

\* String.prototype.indexOf('\n', from)
indexOf(content, from) ==
  LET found == {i \in 0..(Len(content) - 1) : i >= from /\ content[i + 1] = NewLine}
  IN  IF found = {} THEN -1 ELSE CHOOSE i \in found : \A j \in found : i <= j

\* String.prototype.lastIndexOf('\n', from): a negative from counts as 0
lastIndexOf(content, from) ==
  LET limit == IF from < 0 THEN 0 ELSE from
      found == {i \in 0..(Len(content) - 1) : i <= limit /\ content[i + 1] = NewLine}
  IN  IF found = {} THEN -1 ELSE CHOOSE i \in found : \A j \in found : i >= j

\* String.prototype.substring(from): from is clamped to the string
substringFrom(content, from) ==
  SubSeq(content, Min(IF from < 0 THEN 0 ELSE from, Len(content)) + 1, Len(content))

\* fs.read(fd, chunk, 0, length, position): a position of -1 reads at the
\* position of the descriptor, which is 0 as long as no such read was made
fsRead(file, length, position) ==
  LET from == IF position < 0 THEN 0 ELSE position
  IN  SubSeq(file, from + 1, Min(from + length, Len(file)))

RECURSIVE headScan(_, _, _, _, _)
\* the inner loop of head: count the line ends of content after lastPosition
headScan(content, lines, lastPosition, linesObtained, newPosition) ==
  IF newPosition # -1 /\ linesObtained < lines
  THEN headScan(content, lines, newPosition, linesObtained + 1,
                indexOf(content, newPosition + 1))
  ELSE [lastPosition |-> lastPosition, linesObtained |-> linesObtained]

RECURSIVE headLoop(_, _, _, _, _)
\* the outer loop of head: read the next chunk until the lines are there
headLoop(file, lines, content, lastPosition, linesObtained) ==
  IF linesObtained < lines /\ Len(content) < Len(file)
  THEN LET remaining == Len(file) - Len(content) - CHUNK
           chunkSize == CHUNK + Min(remaining, 0)
           read == content \o SubSeq(fsRead(file, chunkSize, Len(content)), 1, chunkSize)
           scan == headScan(read, lines, lastPosition, linesObtained,
                            indexOf(read, lastPosition + 1))
       IN  headLoop(file, lines, read, scan.lastPosition, scan.linesObtained)
  ELSE IF lines # linesObtained THEN content
  ELSE SubSeq(content, 1, lastPosition + 1)

\* LocalStorage.head(path, lines) on a file of this content
LocalStorageHead(file, lines) == headLoop(file, lines, <<>>, -1, 0)

RECURSIVE tailScan(_, _, _, _, _)
\* the inner loop of tail: lastIndexOf(...) || -1 turns a line end at
\* position 0 into "not found"
tailScan(content, lines, lastPosition, linesObtained, newPosition) ==
  IF newPosition # -1 /\ linesObtained < lines
  THEN LET next == lastIndexOf(content, newPosition - 1)
       IN  tailScan(content, lines, Len(content) - newPosition, linesObtained + 1,
                    IF next = 0 THEN -1 ELSE next)
  ELSE [lastPosition |-> lastPosition, linesObtained |-> linesObtained]

RECURSIVE tailLoop(_, _, _, _, _)
\* the outer loop of tail: read the chunk before the content read so far
tailLoop(file, lines, content, lastPosition, linesObtained) ==
  IF linesObtained < lines /\ Len(content) < Len(file)
  THEN LET remaining == Len(file) - Len(content) - CHUNK
           chunkSize == CHUNK + Min(remaining, 0)
           read == SubSeq(fsRead(file, chunkSize, remaining), 1, chunkSize) \o content
           scan == tailScan(read, lines, lastPosition, linesObtained,
                            lastIndexOf(read, Len(read) - lastPosition - 1))
       IN  tailLoop(file, lines, read, scan.lastPosition, scan.linesObtained)
  ELSE IF lines # linesObtained THEN content
  ELSE substringFrom(content, Len(content) - lastPosition + 1)

\* LocalStorage.tail(path, lines) on a file of this content
LocalStorageTail(file, lines) == tailLoop(file, lines, <<>>, 1, 0)

\* the number of lines of a content: one for every line end and one for what
\* follows the last line end, if anything does
LineCount(file) ==
  Cardinality({i \in 1..Len(file) : file[i] = NewLine})
    + (IF file # <<>> /\ file[Len(file)] # NewLine THEN 1 ELSE 0)

\* the end of the n-th line of a content, 0 for n = 0
LineEnd(file, n) ==
  IF n = 0 THEN 0
  ELSE LET ends == {i \in 1..Len(file) :
                      /\ file[i] = NewLine
                      /\ Cardinality({j \in 1..i : file[j] = NewLine}) = n}
       IN  IF ends = {} THEN Len(file) ELSE CHOOSE i \in ends : TRUE

\* the first n lines with their terminators, the whole content when it has
\* fewer
FirstLines(file, n) == SubSeq(file, 1, LineEnd(file, Min(n, LineCount(file))))

\* the last n lines with their terminators, the whole content when it has
\* fewer
LastLines(file, n) ==
  LET count == LineCount(file)
  IN  SubSeq(file, LineEnd(file, IF n < count THEN count - n ELSE 0) + 1, Len(file))

InitLocal ==
  /\ InitIdle
  /\ \E file \in Contents, n \in 1..(MaxContent + 1) :
       pure = [stage |-> "file", file |-> file, lines |-> n, out |-> <<>>]

CallHead ==
  /\ pure.stage = "file"
  /\ pure' = [pure EXCEPT !.stage = "head", !.out = LocalStorageHead(pure.file, pure.lines)]
  /\ UNCHANGED <<storeVars, template, cached, persisted, lastOp, keyRange, db>>

CallTail ==
  /\ pure.stage = "file"
  /\ pure' = [pure EXCEPT !.stage = "tail", !.out = LocalStorageTail(pure.file, pure.lines)]
  /\ UNCHANGED <<storeVars, template, cached, persisted, lastOp, keyRange, db>>

NextLocal == CallHead \/ CallTail

SpecLocal == InitLocal /\ [][NextLocal]_vars

(***************************************************************************)
(* C33  LocalStorage head and tail: for every file content and n >= 1,     *)
(* head(path, n) returns exactly the first n newline-terminated lines with *)
(* their terminators, or the whole file when it has fewer, and tail(path,  *)
(* n) the last n lines with their terminators, or the whole file when it   *)
(* has fewer; with and without a trailing newline, and with empty lines.   *)
(***************************************************************************)
C33_HeadTail ==
  /\ pure.stage = "head" => pure.out = FirstLines(pure.file, pure.lines)
  /\ pure.stage = "tail" => pure.out = LastLines(pure.file, pure.lines)

(***************************************************************************)
(* partitioner/yearmonth.ts and size.ts: getRange applied on its own to a  *)
(* list of names, some of which are two spellings of one partition.        *)
(***************************************************************************)
MaxNames == 3

YearMonthNames ==
  {<<"2", "0", "0", "0", "-">> \o m : m \in {<<"1">>, <<"0", "1">>, <<"2">>, <<"0", "2">>}}

FixedSizeNames == {<<"0">>, <<"0", "0">>, <<"2">>, <<"0", "2">>}

\* the lists of different names
NameLists(names) ==
  UNION {{l \in [1..n -> names] : \A i, j \in 1..n : i # j => l[i] # l[j]} : n \in 1..MaxNames}

\* the value the comparator of getRange orders a name by
NaturalOrder(partitioner, name) ==
  IF partitioner = "YearMonth" THEN MonthNumber(name) ELSE parseInt(name)

\* YearMonthPartitioner.getRange on a list: Array.prototype.sort is stable
\* (ECMAScript 2019), so names the comparator answers 0 for stay in the
\* order of the list
YearMonthGetRangeOfList(partitions) ==
  LET n == Len(partitions)
      least == {i \in 1..n : \A j \in 1..n :
                  MonthNumber(partitions[i]) <= MonthNumber(partitions[j])}
      most == {i \in 1..n : \A j \in 1..n :
                 MonthNumber(partitions[i]) >= MonthNumber(partitions[j])}
  IN  [first |-> partitions[CHOOSE i \in least : \A j \in least : i <= j],
       last |-> partitions[CHOOSE i \in most : \A j \in most : i >= j]]

\* FixedSizePartitioner.getRange on a list: the names are parsed, the
\* numbers sorted and the first and the last written as a number is
FixedSizeGetRangeOfList(partitions) ==
  FixedSizeGetRange({partitions[i] : i \in 1..Len(partitions)})

InitRange ==
  /\ InitIdle
  /\ \E partitioner \in {"YearMonth", "FixedSize"} :
       \E l \in NameLists(IF partitioner = "YearMonth" THEN YearMonthNames ELSE FixedSizeNames) :
         pure = [stage |-> "list", partitioner |-> partitioner, partitions |-> l, out |-> <<>>]

GetRange ==
  /\ pure.stage = "list"
  /\ pure' = [pure EXCEPT !.stage = "range",
                          !.out = IF pure.partitioner = "YearMonth"
                                  THEN <<YearMonthGetRangeOfList(pure.partitions)>>
                                  ELSE <<FixedSizeGetRangeOfList(pure.partitions)>>]
  /\ UNCHANGED <<storeVars, template, cached, persisted, lastOp, keyRange, db>>

NextRange == GetRange

SpecRange == InitRange /\ [][NextRange]_vars

\* the code unit of a character of a partition name
CharCode(c) == IF c = "-" THEN 45 ELSE 48 + DigitVal(c)

RECURSIVE LexLess(_, _)
\* a < b of two strings
LexLess(a, b) ==
  IF b = <<>> THEN FALSE
  ELSE IF a = <<>> THEN TRUE
  ELSE IF Head(a) # Head(b) THEN CharCode(Head(a)) < CharCode(Head(b))
  ELSE LexLess(Tail(a), Tail(b))

(***************************************************************************)
(* C34  getRange tie-break: for YearMonthPartitioner and                   *)
(* FixedSizePartitioner, when two names of the list compare equal under    *)
(* the natural order (2000-1 and 2000-01), the first and the last are      *)
(* chosen among them by the lexicographic comparison of the raw names: the *)
(* first is the lexicographically least of the names that are least under  *)
(* the natural order, the last the lexicographically greatest of the names *)
(* that are greatest, whatever the order of the list.                      *)
(***************************************************************************)
C34_TieBreak ==
  pure.stage = "range" =>
    LET names == {pure.partitions[i] : i \in 1..Len(pure.partitions)}
        order(p) == NaturalOrder(pure.partitioner, p)
        least == {p \in names : \A o \in names : order(p) <= order(o)}
        most == {p \in names : \A o \in names : order(p) >= order(o)}
    IN  /\ pure.out[1].first \in least
        /\ \A o \in least : ~LexLess(o, pure.out[1].first)
        /\ pure.out[1].last \in most
        /\ \A o \in most : ~LexLess(pure.out[1].last, o)

(***************************************************************************)
(* partitioner/size.ts: getPartition applied on its own, for partitioners  *)
(* of several sizes and for indices on both sides of zero.                 *)
(***************************************************************************)
MaxSize == 4

MaxIndex == 8

Indices == (0 - MaxIndex)..MaxIndex

\* FixedSizePartitioner.getPartition of a partitioner of this size
getPartitionOfSize(size, index) == NumberToString(index - Remainder(index, size))

InitSize ==
  /\ InitIdle
  /\ \E size \in 1..MaxSize, index \in Indices :
       pure = [stage |-> "index", size |-> size, index |-> index, out |-> <<>>]

GetPartition ==
  /\ pure.stage = "index"
  /\ pure' = [pure EXCEPT !.stage = "partition",
                          !.out = getPartitionOfSize(pure.size, pure.index)]
  /\ UNCHANGED <<storeVars, template, cached, persisted, lastOp, keyRange, db>>

NextSize == GetPartition

SpecSize == InitSize /\ [][NextSize]_vars

(***************************************************************************)
(* C35  FixedSizePartitioner partition size: for every size s >= 1, the    *)
(* partition name that getPartition gives an index is shared by at most s  *)
(* distinct integer indices, positive, zero or negative, and getPartition  *)
(* is monotone: a smaller index never gets a later partition.              *)
(***************************************************************************)
C35_PartitionSize ==
  pure.stage = "partition" =>
    /\ Cardinality({i \in Indices : getPartitionOfSize(pure.size, i) = pure.out}) <= pure.size
    /\ \A i \in Indices :
         i <= pure.index => parseInt(getPartitionOfSize(pure.size, i)) <= parseInt(pure.out)

(***************************************************************************)
(* schema.ts: validate applied to an entry whose field is declared a list  *)
(* and whose value is a list of several elements.                          *)
(***************************************************************************)
MaxElems == 2

\* the type maps of one field, which is a list
ListTypeMaps == {m \in [{"value"} -> ValidateMetas] : m.value.isList}

\* the lists of one element or more
LongArrays ==
  UNION {{[isArray |-> TRUE, elems |-> e] : e \in [1..n -> ValueTags]} : n \in 1..MaxElems}

InitList ==
  /\ InitIdle
  /\ \E typeMap \in ListTypeMaps, entry \in [{"value"} -> LongArrays] :
       pure = [stage |-> "input", typeMap |-> typeMap, entry |-> entry, result |-> "none"]

NextList == Validate

SpecList == InitList /\ [][NextList]_vars

(***************************************************************************)
(* C36  Validation rejects a non-homogeneous list: for a field declared a  *)
(* list of kind K, validate accepts a list only when every element is of   *)
(* kind K; a list whose first element is of kind K and a later element of  *)
(* another kind is rejected with a Validation error.                       *)
(***************************************************************************)
C36_HomogeneousList ==
  pure.stage = "validated" =>
    \A f \in DOMAIN pure.typeMap :
      LET elems == pure.entry[f].elems
          OfKind(tag) == tag \in ValidateKinds /\ TypeIdentifier(tag) = pure.typeMap[f].type
          homogeneous == \A i \in 1..Len(elems) : OfKind(elems[i])
      IN  (pure.typeMap[f].isList /\ pure.entry[f].isArray) =>
            /\ pure.result = "ok" => homogeneous
            /\ (OfKind(elems[1]) /\ ~homogeneous) =>
                 pure.result = "Validation"

(***************************************************************************)
(* The puts of one instance of the relational store, constructed with the  *)
(* Entry prototype on an empty database: they go through the queue of the  *)
(* instance one after the other, and any call on the database may fail.    *)
(***************************************************************************)
InitSettle == InitExec /\ template = [s \in Stores |-> Some(EntrySchema)]

NextSettle ==
  \/ ExecCall(ncalls + 1, 1, "put")
  \/ ExecDequeue(1)
  \/ \E t \in 1..MaxCalls : ExecOpen(t)
  \/ \E t \in 1..MaxCalls : ExecEnsureSchema(t)
  \/ \E t \in 1..MaxCalls : ExecCreateSchemaTable(t)
  \/ \E t \in 1..MaxCalls : ExecInsertSchema(t)
  \/ \E t \in 1..MaxCalls : ExecCreateRecordTable(t)
  \/ \E t \in 1..MaxCalls : ExecQuery(t)
  \/ \E t \in 1..MaxCalls : ExecClose(t)

SpecSettle == InitSettle /\ [][NextSettle]_vars

(***************************************************************************)
(* C37  A failed put leaves no lock: after a put failed, a later put on    *)
(* the same instance runs and completes normally, and every put queued     *)
(* behind the failed one is still executed.  Here: a put of the instance   *)
(* settles with an error only when a call it made itself on the database   *)
(* failed; no put fails because of what an earlier put left behind.        *)
(***************************************************************************)
C37_NoLock ==
  (lastOp # <<>> /\ lastOp[1].op = "put") => lastOp[1].error \in {"none", "fault"}

\* the index cell of a row, read exactly
ExactIndex(cell) ==
  [kind |-> kind,
   v |-> IF kind = "Number" THEN ParseInteger(cell)
         ELSE IF kind = "Date" THEN Thousandths(cell)
         ELSE cell]

(***************************************************************************)
(* C38  Partition membership: after any sequence of puts on a CSV store,   *)
(* every data row of the file of partition p has an index i with           *)
(* getPartition(i) = p, and a partition file exists only if some put       *)
(* contained an entry that maps to it; the read operations never create,   *)
(* modify or delete a partition file.                                      *)
(***************************************************************************)
C38_Membership ==
  backend = "csv" =>
    /\ \A p \in DOMAIN files :
         /\ \A i \in 1..Len(DataRows(files[p])) :
              getPartition(ExactIndex(DataRows(files[p])[i].key)) = p
         /\ \E k \in putKeys : getPartition(k) = p
    /\ (lastOp # <<>> /\ lastOp[1].op # "put") => files = lastOp[1].pre.files

\* a put wrote the rows of two partitions, one of them with several rows
C38_Witness ==
  /\ backend = "csv"
  /\ lastOp # <<>>
  /\ lastOp[1].op = "put"
  /\ lastOp[1].error = "none"
  /\ Cardinality({getPartition(lastOp[1].batch[i].key) : i \in 1..Len(lastOp[1].batch)}) > 1
  /\ \E p \in DOMAIN files : Len(files[p]) > 2

(***************************************************************************)
(* C39  One batch per partition per put: within a single put on the CSV    *)
(* store, all the entries that map to one partition are processed by the   *)
(* writer of that partition as a single batch, so that the call performs   *)
(* exactly one storage mutation (append or write) on each partition it     *)
(* touches and none on any other.                                          *)
(***************************************************************************)
C39_OneBatchPerPartition ==
  backend = "csv" =>
    /\ lastEmit # <<>> =>
         LET emit == lastEmit[1]
             entries == calls[emit.call].entries
         IN  /\ {emit.batch[i] : i \in 1..Len(emit.batch)}
                  = {entries[i] : i \in {j \in 1..Len(entries) :
                                           getPartition(entries[j].key) = emit.partition}}
             /\ calls[emit.call].writers[emit.partition].emits = 1
    /\ lastPut # <<>> =>
         LET put == lastPut[1]
             touched == {getPartition(put.entries[i].key) : i \in 1..Len(put.entries)}
         IN  /\ DOMAIN put.emits = touched
             /\ \A p \in touched : put.emits[p] = 1
             /\ \A q \in (DOMAIN files \cup DOMAIN put.pre) \ touched :
                  q \in DOMAIN files /\ q \in DOMAIN put.pre /\ files[q] = put.pre[q]

\* a put of several entries of one partition returned while the file of
\* another partition is there
C39_Witness ==
  /\ backend = "csv"
  /\ lastPut # <<>>
  /\ Len(lastPut[1].entries) > 1
  /\ Cardinality({getPartition(lastPut[1].entries[i].key) :
                    i \in 1..Len(lastPut[1].entries)}) = 1
  /\ \E q \in DOMAIN files : \A i \in 1..Len(lastPut[1].entries) :
       getPartition(lastPut[1].entries[i].key) # q

(***************************************************************************)
(* The first operations of one instance of the relational store,           *)
(* constructed with the Entry prototype on an empty database, issued at    *)
(* any time; no call on the database fails for a reason that is not in     *)
(* the database.                                                           *)
(***************************************************************************)
InitContact ==
  /\ backend = "sqlite"
  /\ kind = "Number"
  /\ keyRange = "narrow"
  /\ db = [NoDatabase EXCEPT !.faulty = FALSE]
  /\ InitEmpty
  /\ template = [s \in Stores |-> Some(EntrySchema)]
  /\ persisted = <<>>

NextContact ==
  \/ \E op \in ExecOps : ExecCall(ncalls + 1, 1, op)
  \/ ExecDequeue(1)
  \/ \E t \in 1..MaxCalls : ExecOpen(t)
  \/ \E t \in 1..MaxCalls : ExecEnsureSchema(t)
  \/ \E t \in 1..MaxCalls : ExecCreateSchemaTable(t)
  \/ \E t \in 1..MaxCalls : ExecInsertSchema(t)
  \/ \E t \in 1..MaxCalls : ExecCreateRecordTable(t)
  \/ \E t \in 1..MaxCalls : ExecQuery(t)
  \/ \E t \in 1..MaxCalls : ExecClose(t)

SpecContact == InitContact /\ [][NextContact]_vars

(***************************************************************************)
(* C40  Concurrent first contact is safe: when several operations (any mix *)
(* of fields, first, last, get and put) are issued concurrently on a fresh *)
(* instance with a template and an empty backing, the schema is persisted  *)
(* as if by one initialization (relational store: the schema table and the *)
(* records table are created once and the schema table has exactly one     *)
(* row) and every operation succeeds.                                      *)
(***************************************************************************)
C40_FirstContact ==
  /\ lastOp # <<>> => lastOp[1].error = "none"
  /\ (DOMAIN tasks = {} /\ ncalls > 0 /\ (lastOp # <<>> => lastOp[1].op # "put()")) =>
       db.schema = "row" /\ db.records

====
